---- MODULE Spec2Model ----
(***************************************************************************)
(* SCOPE satellite simulator: the command-integrity pipeline               *)
(* (sign -> attack -> corrupt -> verify -> apply) of                       *)
(* simulator/sim.py, cyberattack/manager.py and cyberattack/spoof.py.      *)
(*                                                                         *)
(* Representation of Python values                                         *)
(*   str        a sequence of Unicode code points (naturals); S("...")     *)
(*              style literals are written as tuples of code points        *)
(*   bytes      a sequence of naturals 0..255                              *)
(*   float      command values are carried exactly as decimal numbers      *)
(*              [neg, m, e] meaning (-1)^neg * m * 10^e (see ParseFloat)   *)
(*   call       its outcome [raised |-> "<ExceptionClass>" or "", v |-> value] *)
(*   dict unit  a record [isdict, command, auth, signature]                *)
(***************************************************************************)
EXTENDS Integers, Sequences, FiniteSets, TLC

\* ------------------------------------------------------------------------
\* Generic helpers
\* ------------------------------------------------------------------------
Min(a, b) == IF a <= b THEN a ELSE b

Max(a, b) == IF a >= b THEN a ELSE b

RECURSIVE Pow(_, _)
Pow(b, n) == IF n = 0 THEN 1 ELSE b * Pow(b, n - 1)

Range(n) == 0 .. (n - 1)

\* Python slicing s[a:b] on 0-based indices (a, b already clamped)
Slice(s, a, b) == IF b <= a THEN << >> ELSE SubSeq(s, a + 1, b)

\* index (0-based) of the first occurrence of code point c in s, or -1
RECURSIVE FindFrom(_, _, _)
FindFrom(s, c, i) ==
    IF i >= Len(s) THEN -1
    ELSE IF s[i + 1] = c THEN i
    ELSE FindFrom(s, c, i + 1)

Find(s, c) == FindFrom(s, c, 0)

\* str.split(sep) for a one-character separator: every field, in order
RECURSIVE SplitAll(_, _)
SplitAll(s, c) ==
    LET i == Find(s, c)
    IN  IF i < 0 THEN << s >>
        ELSE << Slice(s, 0, i) >> \o SplitAll(Slice(s, i + 1, Len(s)), c)

\* str.split(sep, 1)[0]: the text before the first separator
SplitFirst(s, c) ==
    LET i == Find(s, c)
    IN  IF i < 0 THEN s ELSE Slice(s, 0, i)

\* str.startswith(prefix)
StartsWith(s, p) == Len(s) >= Len(p) /\ SubSeq(s, 1, Len(p)) = p

\* ------------------------------------------------------------------------
\* UTF-8: str.encode('utf-8') and bytes.decode('utf-8', errors='replace')
\* ------------------------------------------------------------------------
ReplacementChar == 65533

IsCont(b) == b >= 128 /\ b <= 191

\* bytes of one code point (code points used by the model are not surrogates)
EncodeCp(c) ==
    IF c < 128 THEN << c >>
    ELSE IF c < 2048 THEN << 192 + (c \div 64), 128 + (c % 64) >>
    ELSE IF c < 65536
         THEN << 224 + (c \div 4096), 128 + ((c \div 64) % 64), 128 + (c % 64) >>
    ELSE << 240 + (c \div 262144), 128 + ((c \div 4096) % 64),
            128 + ((c \div 64) % 64), 128 + (c % 64) >>

RECURSIVE Utf8Encode(_)
Utf8Encode(s) ==
    IF s = << >> THEN << >> ELSE EncodeCp(Head(s)) \o Utf8Encode(Tail(s))

\* number of continuation bytes a lead byte announces (0 for ASCII,
\* -1 for a byte that can never start a sequence)
Need(b) ==
    IF b < 128 THEN 0
    ELSE IF b >= 194 /\ b <= 223 THEN 1
    ELSE IF b >= 224 /\ b <= 239 THEN 2
    ELSE IF b >= 240 /\ b <= 244 THEN 3
    ELSE -1

\* is c2 a legal second byte after lead byte b (overlong forms, surrogates
\* and code points above U+10FFFF are illegal)
SecondOk(b, c2) ==
    IF b = 224 THEN c2 >= 160 /\ c2 <= 191
    ELSE IF b = 237 THEN c2 >= 128 /\ c2 <= 159
    ELSE IF b = 240 THEN c2 >= 144 /\ c2 <= 191
    ELSE IF b = 244 THEN c2 >= 128 /\ c2 <= 143
    ELSE IsCont(c2)

\* decoding from 1-based position i; an ill-formed sequence yields one
\* U+FFFD for its maximal well-formed prefix and decoding resumes after it
RECURSIVE DecodeFrom(_, _)
DecodeFrom(b, i) ==
    IF i > Len(b) THEN << >>
    ELSE LET b1 == b[i]
             n  == Need(b1)
         IN  IF n = 0 THEN << b1 >> \o DecodeFrom(b, i + 1)
             ELSE IF n = -1 THEN << ReplacementChar >> \o DecodeFrom(b, i + 1)
             ELSE IF i + 1 > Len(b) \/ ~SecondOk(b1, b[i + 1])
                  THEN << ReplacementChar >> \o DecodeFrom(b, i + 1)
             ELSE IF n = 1
                  THEN << (b1 - 192) * 64 + (b[i + 1] - 128) >>
                       \o DecodeFrom(b, i + 2)
             ELSE IF i + 2 > Len(b) \/ ~IsCont(b[i + 2])
                  THEN << ReplacementChar >> \o DecodeFrom(b, i + 2)
             ELSE IF n = 2
                  THEN << (b1 - 224) * 4096 + (b[i + 1] - 128) * 64
                          + (b[i + 2] - 128) >>
                       \o DecodeFrom(b, i + 3)
             ELSE IF i + 3 > Len(b) \/ ~IsCont(b[i + 3])
                  THEN << ReplacementChar >> \o DecodeFrom(b, i + 3)
             ELSE << (b1 - 240) * 262144 + (b[i + 1] - 128) * 4096
                     + (b[i + 2] - 128) * 64 + (b[i + 3] - 128) >>
                  \o DecodeFrom(b, i + 4)

Utf8DecodeReplace(b) == DecodeFrom(b, 1)

\* byte_array[bit_index // 8] ^= (1 << (bit_index % 8))
FlipBit(b, bit_index) ==
    LET byte_index  == bit_index \div 8
        bit_in_byte == bit_index % 8
        w           == Pow(2, bit_in_byte)
        old         == b[byte_index + 1]
    IN  [b EXCEPT ![byte_index + 1] =
            IF (old \div w) % 2 = 1 THEN old - w ELSE old + w]

RECURSIVE FlipBits(_, _)
FlipBits(b, bit_indices) ==
    IF bit_indices = {} THEN b
    ELSE LET x == CHOOSE y \in bit_indices : TRUE
         IN  FlipBits(FlipBit(b, x), bit_indices \ {x})

\* ------------------------------------------------------------------------
\* Text constants of the wire format
\* ------------------------------------------------------------------------
Bar == 124

Colon == 58

Underscore == 95

Dot == 46

Minus == 45

Plus == 43

Zero == 48

THRUST == << 84, 72, 82, 85, 83, 84 >>

RW_TORQUE == << 82, 87, 95, 84, 79, 82, 81, 85, 69 >>

THRUST_X == << 84, 72, 82, 85, 83, 84, 95, 88 >>

THRUST_Y == << 84, 72, 82, 85, 83, 84, 95, 89 >>

THRUST_Z == << 84, 72, 82, 85, 83, 84, 95, 90 >>

RW_TORQUE_X == << 82, 87, 95, 84, 79, 82, 81, 85, 69, 95, 88 >>

RW_TORQUE_Y == << 82, 87, 95, 84, 79, 82, 81, 85, 69, 95, 89 >>

RW_TORQUE_Z == << 82, 87, 95, 84, 79, 82, 81, 85, 69, 95, 90 >>

\* CommandSpoofer.allowed_cmd_types
allowed_cmd_types ==
    << THRUST_X, THRUST_Y, THRUST_Z, RW_TORQUE_X, RW_TORQUE_Y, RW_TORQUE_Z >>

\* the alphabet of the fallback substitution, "XYZ123!@#"
FallbackAlphabet == << 88, 89, 90, 49, 50, 51, 33, 64, 35 >>

HexDigits == << 48, 49, 50, 51, 52, 53, 54, 55, 56, 57, 97, 98, 99, 100, 101, 102 >>

IsDigit(c) == c >= 48 /\ c <= 57

\* ------------------------------------------------------------------------
\* Decimal numbers: float(), str(float) and the ".6f" format
\*
\* A float is carried as the decimal number it was written as,
\* (-1)^neg * m * 10^e with m free of trailing zeros; this is exact for
\* numbers of at most 15 significant digits, which covers every value the
\* six-decimal wire format and two bit flips can produce.
\* ------------------------------------------------------------------------
FloatError == [t |-> "ValueError", neg |-> FALSE, m |-> 0, e |-> 0]

FloatNan == [t |-> "nan", neg |-> FALSE, m |-> 0, e |-> 0]

FloatInf(neg) == [t |-> "inf", neg |-> neg, m |-> 0, e |-> 0]

RECURSIVE Normalize(_, _, _)
Normalize(neg, m, e) ==
    IF m = 0 THEN [t |-> "num", neg |-> neg, m |-> 0, e |-> 0]
    ELSE IF m % 10 = 0 THEN Normalize(neg, m \div 10, e + 1)
    ELSE [t |-> "num", neg |-> neg, m |-> m, e |-> e]

FloatZero == Normalize(FALSE, 0, 0)

RECURSIVE NumDigits(_)
NumDigits(n) == IF n < 10 THEN 1 ELSE 1 + NumDigits(n \div 10)

RECURSIVE IntToStr(_)
IntToStr(n) ==
    IF n < 10 THEN << Zero + n >> ELSE IntToStr(n \div 10) \o << Zero + (n % 10) >>

RECURSIVE Zeros(_)
Zeros(n) == IF n <= 0 THEN << >> ELSE << Zero >> \o Zeros(n - 1)

\* A controller output x, rounded to six decimals: micro = |x| in
\* millionths, neg = the sign bit.  f"{x:.6f}"
FormatF6(x) ==
    (IF x.neg THEN << Minus >> ELSE << >>)
    \o IntToStr(x.micro \div 1000000) \o << Dot >>
    \o Zeros(6 - NumDigits(x.micro % 1000000)) \o IntToStr(x.micro % 1000000)

\* the float whose ".6f" rendering is FormatF6(x)
FloatOfMicro(x) == Normalize(x.neg, x.micro, -6)

AsciiSpace == {9, 10, 11, 12, 13, 32}

RECURSIVE LStrip(_)
LStrip(s) == IF s # << >> /\ Head(s) \in AsciiSpace THEN LStrip(Tail(s)) ELSE s

RECURSIVE RStrip(_)
RStrip(s) ==
    IF s # << >> /\ s[Len(s)] \in AsciiSpace THEN RStrip(SubSeq(s, 1, Len(s) - 1))
    ELSE s

Lower(c) == IF c >= 65 /\ c <= 90 THEN c + 32 ELSE c

LowerStr(s) == [i \in DOMAIN s |-> Lower(s[i])]

\* a digit part  digit ("_"? digit)*  read from 1-based position i: the
\* digits read and the position after them (an underscore is read only
\* between two digits)
RECURSIVE ScanDigits(_, _, _)
ScanDigits(s, i, acc) ==
    IF i <= Len(s) /\ IsDigit(s[i])
    THEN ScanDigits(s, i + 1, acc \o << s[i] - Zero >>)
    ELSE IF /\ acc # << >> /\ i + 1 <= Len(s)
            /\ s[i] = Underscore /\ IsDigit(s[i + 1])
    THEN ScanDigits(s, i + 1, acc)
    ELSE [digits |-> acc, next |-> i]

RECURSIVE DigitsToInt(_)
DigitsToInt(d) ==
    IF d = << >> THEN 0 ELSE DigitsToInt(SubSeq(d, 1, Len(d) - 1)) * 10 + d[Len(d)]

RECURSIVE DropLeadingZeros(_)
DropLeadingZeros(d) ==
    IF d # << >> /\ Head(d) = 0 THEN DropLeadingZeros(Tail(d)) ELSE d

RECURSIVE DropTrailingZeros(_)
DropTrailingZeros(d) ==
    IF d # << >> /\ d[Len(d)] = 0
    THEN DropTrailingZeros(SubSeq(d, 1, Len(d) - 1)) ELSE d

\* the number  digits * 10^e10  as a float (overflow gives inf, underflow 0)
MakeFloat(neg, digits, e10) ==
    LET lead == DropLeadingZeros(digits)
        sig  == DropTrailingZeros(lead)
        e    == e10 + (Len(lead) - Len(sig))
        x    == e + Len(sig) - 1
    IN  IF sig = << >> THEN Normalize(neg, 0, 0)
        ELSE IF x > 308 THEN FloatInf(neg)
        ELSE IF x < -324 THEN Normalize(neg, 0, 0)
        ELSE [t |-> "num", neg |-> neg, m |-> DigitsToInt(sig), e |-> e]

\* float(s) for a str s
ParseFloat(s0) ==
    LET s     == RStrip(LStrip(s0))
        neg   == s # << >> /\ Head(s) = Minus
        start == IF s # << >> /\ Head(s) \in {Minus, Plus} THEN 2 ELSE 1
        word  == LowerStr(SubSeq(s, start, Len(s)))
        ip    == ScanDigits(s, start, << >>)
        hasDot == ip.next <= Len(s) /\ s[ip.next] = Dot
        fp    == IF hasDot THEN ScanDigits(s, ip.next + 1, << >>)
                 ELSE [digits |-> << >>, next |-> ip.next]
        hasExp == fp.next <= Len(s) /\ s[fp.next] \in {101, 69}
        eneg  == hasExp /\ fp.next + 1 <= Len(s) /\ s[fp.next + 1] = Minus
        estart == IF hasExp /\ fp.next + 1 <= Len(s)
                     /\ s[fp.next + 1] \in {Minus, Plus}
                  THEN fp.next + 2 ELSE fp.next + 1
        ep    == IF hasExp THEN ScanDigits(s, estart, << >>)
                 ELSE [digits |-> << >>, next |-> fp.next]
        ex    == IF eneg THEN 0 - DigitsToInt(ep.digits) ELSE DigitsToInt(ep.digits)
    IN  IF \E c \in {s[i] : i \in DOMAIN s} : c >= 128 THEN FloatError
        ELSE IF word \in {<< 105, 110, 102 >>,
                          << 105, 110, 102, 105, 110, 105, 116, 121 >>}
             THEN FloatInf(neg)
        ELSE IF word = << 110, 97, 110 >> THEN FloatNan
        ELSE IF ip.digits = << >> /\ fp.digits = << >> THEN FloatError
        ELSE IF hasExp /\ ep.digits = << >> THEN FloatError
        ELSE IF ep.next # Len(s) + 1 THEN FloatError
        ELSE MakeFloat(neg, ip.digits \o fp.digits, ex - Len(fp.digits))

\* str(x) for a float x: the shortest decimal that reads back as x
FloatRepr(x) ==
    LET sign == IF x.neg THEN << Minus >> ELSE << >>
        d    == IntToStr(x.m)
        n    == Len(d)
        xp   == x.e + n - 1
        axp  == IF xp < 0 THEN 0 - xp ELSE xp
    IN  IF x.t = "nan" THEN << 110, 97, 110 >>
        ELSE IF x.t = "inf" THEN sign \o << 105, 110, 102 >>
        ELSE IF x.m = 0 THEN sign \o << Zero, Dot, Zero >>
        ELSE IF xp >= -4 /\ xp < 16
             THEN IF x.e >= 0 THEN sign \o d \o Zeros(x.e) \o << Dot, Zero >>
                  ELSE IF xp >= 0
                       THEN sign \o SubSeq(d, 1, xp + 1) \o << Dot >>
                            \o SubSeq(d, xp + 2, n)
                  ELSE sign \o << Zero, Dot >> \o Zeros(axp - 1) \o d
        ELSE sign \o << Head(d) >>
             \o (IF n > 1 THEN << Dot >> \o Tail(d) ELSE << >>)
             \o << 101 >> \o (IF xp < 0 THEN << Minus >> ELSE << Plus >>)
             \o (IF axp < 10 THEN << Zero >> ELSE << >>) \o IntToStr(axp)

\* ------------------------------------------------------------------------
\* Checksum and signatures
\* ------------------------------------------------------------------------
RECURSIVE HashBytes(_, _)
HashBytes(b, h) ==
    IF b = << >> THEN h ELSE HashBytes(Tail(b), (h * 31 + Head(b)) % 16777216)

RECURSIVE HexOf(_, _)
HexOf(h, n) ==
    IF n = 0 THEN << >> ELSE HexOf(h \div 16, n - 1) \o << HexDigits[(h % 16) + 1] >>

\* hashlib.md5(body.encode()).hexdigest()[:6].  MD5 itself is replaced by a
\* small polynomial hash of the same shape: a function of the body bytes
\* giving six lowercase hex digits.
Checksum6(body) == HexOf(HashBytes(Utf8Encode(body), 7), 6)

\* f"{cmd}|{md5_digest}"
WithChecksum(body) == body \o << Bar >> \o Checksum6(body)

\* Key pairs are named by their private half; the run's key pair and a key
\* pair the attacker generated himself.
RunKey == "run"

OtherKey == "other"

\* bytes values that are not text: who made them and over what
NoBytes == [len |-> 0, src |-> "none", key |-> "", over |-> << >>, nonce |-> 0]

\* Ed25519PrivateKey.sign(data): 64 bytes, deterministic in (key, data)
Ed25519Sign(key, data) ==
    [len |-> 64, src |-> "sign", key |-> key, over |-> data, nonce |-> 0]

\* os.urandom(n): n bytes owing nothing to any key or message
Urandom(n, nonce) ==
    [len |-> n, src |-> "urandom", key |-> "", over |-> << >>, nonce |-> nonce]

\* Ed25519PublicKey.verify(signature, data) raises InvalidSignature unless
\* signature is the 64 bytes the matching private key signs over data
\* (the unforgeability of Ed25519 is assumed)
Ed25519Verify(pub, signature, data) == signature = Ed25519Sign(pub.of, data)

\* ------------------------------------------------------------------------
\* Python values of a command unit
\* ------------------------------------------------------------------------
PyStr(s) == [t |-> "str", s |-> s]

PyNone == [t |-> "None", s |-> << >>]

PyMissing == [t |-> "missing", s |-> << >>]

PyInt == [t |-> "int", s |-> << >>]

\* a signature field: hex text (well formed or not) of some bytes
SigHex(b) == [t |-> "str", wf |-> TRUE, bytes |-> b]

SigBadHex == [t |-> "str", wf |-> FALSE, bytes |-> NoBytes]

SigMissing == [t |-> "missing", wf |-> FALSE, bytes |-> NoBytes]

SigInt == [t |-> "int", wf |-> FALSE, bytes |-> NoBytes]

Unit(command, auth, signature) ==
    [isdict |-> TRUE, command |-> command, auth |-> auth, signature |-> signature]

NotADict ==
    [isdict |-> FALSE, command |-> PyMissing, auth |-> "", signature |-> SigMissing]

\* truth value of an Optional[str]
Truthy(v) == v.t = "str" /\ v.s # << >>

\* outcome of a call: a returned value or a raised exception
Return(v) == [raised |-> "", v |-> v]

Raise(exc) == [raised |-> exc, v |-> PyNone]

\* SatelliteSimulator._sign_command
\*   self._ed_privkey.sign(cmd_text.encode('utf-8')).hex()
sign_command(privkey, cmd_text) == SigHex(Ed25519Sign(privkey, Utf8Encode(cmd_text)))

\* the unit the simulator builds for one control command
SignedUnit(privkey, cmd) ==
    Unit(PyStr(WithChecksum(cmd)), "ed25519", sign_command(privkey, WithChecksum(cmd)))

\* ------------------------------------------------------------------------
\* Bounds of the model
\* ------------------------------------------------------------------------
\* how many bit positions of a message random.sample draws from
MaxSampleBits == 5

\* largest flips argument passed to corrupt_message
MaxFlips == 3

\* ------------------------------------------------------------------------
\* State
\* ------------------------------------------------------------------------
VARIABLES
    scenarios,        \* CyberAttackManager.scenarios
    defense_config,   \* CyberAttackManager.defense_config
    base_error_rate,  \* CyberAttackManager.base_error_rate, in units of 1/10000
    public_key,       \* CyberAttackManager.public_key
    call,             \* the last call made on the manager and its outcome
    sim_config,       \* SatelliteSimulator.sim_config: time_steps, dt, base_error_rate
    ed_privkey,       \* SatelliteSimulator._ed_privkey
    pc,               \* where run() stands
    step,             \* the loop variable of run()
    active_attack,    \* position in scenarios of the active attack, 0 for None
    control,          \* thrust_accel and control_torque of this step
    commands,         \* the batch of command units of this step
    signed,           \* the wire strings passed to _sign_command in this step
    forged,           \* the units of the batch that the spoofer made
    telemetry_for_attack,
    error_rate,       \* in units of 1/10000
    cmd_index,        \* position of the command loop in the batch (from 1)
    thrust_accel_actual,
    control_torque_actual,
    verified_count,
    applied,          \* the writes made into the two vectors in this step,
                      \* each with the position of its command in the batch
    last,             \* the command processed last
    corruptions,      \* messages corrupted so far in this step
    propagated,       \* the vectors passed to the propagator in this step
    power_consumption, \* power.state.power_consumption
    published         \* the telemetry packet and log row of the last step

mgr_vars == << scenarios, defense_config, base_error_rate, public_key >>

sim_vars ==
    << sim_config, ed_privkey, pc, step, active_attack, control, commands, signed,
       forged, telemetry_for_attack, error_rate, cmd_index, thrust_accel_actual,
       control_torque_actual, verified_count, applied, last, corruptions, propagated,
       power_consumption, published >>

vars == << mgr_vars, call, sim_vars >>

\* CyberScenario; intensity is in hundredths
CyberScenario(attack_type, start_time, duration, intensity, spoof_mode, compromised) ==
    [attack_type |-> attack_type, start_time |-> start_time, duration |-> duration,
     intensity |-> intensity, debug |-> FALSE, spoof_mode |-> spoof_mode,
     has_compromised_key |-> compromised]

\* defense_config: None, or an object that may carry enable_key_auth
NoDefenseConfig == [isNone |-> TRUE, hasAttr |-> FALSE, enable_key_auth |-> FALSE]

DefenseSystemConfig(enable_key_auth) ==
    [isNone |-> FALSE, hasAttr |-> TRUE, enable_key_auth |-> enable_key_auth]

ConfigWithoutAttr == [isNone |-> FALSE, hasAttr |-> FALSE, enable_key_auth |-> FALSE]

\* getattr(self.defense_config, "enable_key_auth", True)
GetEnableKeyAuth_default_false(cfg) == IF cfg.hasAttr THEN cfg.enable_key_auth ELSE FALSE

GetEnableKeyAuth(cfg) == IF cfg.hasAttr THEN cfg.enable_key_auth ELSE TRUE

\* the condition of manager.py:152
AuthDisabled_inverted == ~defense_config.isNone /\ GetEnableKeyAuth(defense_config)

AuthDisabled == ~defense_config.isNone /\ ~GetEnableKeyAuth(defense_config)

NoPublicKey == [set |-> FALSE, of |-> ""]

\* raw public key bytes: the 32 bytes of a key, or something else
PublicBytes(key) == [len |-> 32, of |-> key]

\* ------------------------------------------------------------------------
\* CyberAttackManager.set_public_key
\* ------------------------------------------------------------------------
set_public_key_discards(public_key_bytes) == NoPublicKey

\* Ed25519PublicKey.from_public_bytes raises ValueError unless given 32 bytes
set_public_key(public_key_bytes) ==
    IF public_key_bytes.len = 32
    THEN [set |-> TRUE, of |-> public_key_bytes.of]
    ELSE NoPublicKey

\* ------------------------------------------------------------------------
\* CyberAttackManager.get_active_attack: the position in self.scenarios of
\* the scenario returned, 0 for None
\* ------------------------------------------------------------------------
InWindow_closed(scenario, current_time) ==
    /\ scenario.start_time <= current_time
    /\ current_time <= scenario.start_time + scenario.duration

InWindow(scenario, current_time) ==
    /\ scenario.start_time <= current_time
    /\ current_time < scenario.start_time + scenario.duration

RECURSIVE ScanScenarios(_, _)
ScanScenarios(i, current_time) ==
    IF i > Len(scenarios) THEN 0
    ELSE IF InWindow(scenarios[i], current_time) THEN i
    ELSE ScanScenarios(i + 1, current_time)

get_active_attack(current_time) == ScanScenarios(1, current_time)

\* ------------------------------------------------------------------------
\* CyberAttackManager.verify_command
\* ------------------------------------------------------------------------
\* dict.get(key, default)
Get(field, default) == IF field.t = "missing" THEN default ELSE field

\* self.public_key.verify(signature_bytes, cmd_text.encode('utf-8')): the
\* signature is checked against the exact wire string received
VerifySignature_body_only(signature_bytes, cmd_text) ==
    Ed25519Verify(public_key, signature_bytes, Utf8Encode(SplitFirst(cmd_text, Bar)))

VerifySignature(signature_bytes, cmd_text) ==
    Ed25519Verify(public_key, signature_bytes, Utf8Encode(cmd_text))

\* cmd_text.split('|', 1)[0] if '|' in cmd_text else cmd_text
CommandBody_whole_text(cmd_text) == cmd_text

CommandBody(cmd_text) ==
    IF Find(cmd_text, Bar) >= 0 THEN SplitFirst(cmd_text, Bar) ELSE cmd_text

\* the body of the try block
verify_command_try(msg) ==
    IF ~msg.isdict THEN Return(PyNone)
    ELSE
    LET cmd_text      == Get(msg.command, PyStr(<< >>))
        signature_hex == Get(msg.signature, SigHex(NoBytes))
        auth          == msg.auth
    IN  IF AuthDisabled
        THEN IF cmd_text.t # "str" THEN Raise("TypeError")
             ELSE Return(PyStr(CommandBody(cmd_text.s)))
        ELSE IF auth # "ed25519" \/ ~public_key.set THEN Return(PyNone)
        ELSE IF signature_hex.t # "str" THEN Raise("TypeError")
        ELSE IF ~signature_hex.wf THEN Raise("ValueError")
        ELSE IF cmd_text.t # "str" THEN Raise("AttributeError")
        ELSE IF ~VerifySignature(signature_hex.bytes, cmd_text.s)
             THEN Raise("InvalidSignature")
        ELSE Return(PyStr(CommandBody(cmd_text.s)))

\* the except clauses: (InvalidSignature, ValueError, KeyError), then
\* Exception, of which every exception class raised here is a subclass
ExceptionClasses ==
    {"InvalidSignature", "ValueError", "KeyError", "TypeError", "AttributeError"}

Caught_nothing(exc) == FALSE

Caught_first_clause_only(exc) == exc \in {"InvalidSignature", "ValueError", "KeyError"}

Caught(exc) ==
    \/ exc \in {"InvalidSignature", "ValueError", "KeyError"}
    \/ exc \in ExceptionClasses

verify_command(msg) ==
    LET r == verify_command_try(msg)
    IN  IF r.raised # "" /\ Caught(r.raised) THEN Return(PyNone) ELSE r

\* ------------------------------------------------------------------------
\* CyberAttackManager.corrupt_message
\* ------------------------------------------------------------------------
\* the outcomes of  random.random() < error_rate : random() ranges over
\* [0, 1), so the test can succeed iff error_rate > 0 and can fail iff
\* error_rate < 1 (rates are in units of 1/10000)
RandomBelow(rate) ==
    {b \in BOOLEAN : (b => rate > 0) /\ (~b => rate < 10000)}

\* the bit positions random.sample draws from: every position of a short
\* message, MaxSampleBits positions of a longer one, spread over its bytes
\* and over the places in a byte
SampleBits(total_bits) ==
    IF total_bits <= MaxSampleBits THEN Range(total_bits)
    ELSE {8 * ((i * (total_bits \div 8)) \div MaxSampleBits) + (i % 8) :
          i \in Range(MaxSampleBits)}

RECURSIVE KSubsets(_, _)
KSubsets(S, k) ==
    IF k = 0 THEN {{}}
    ELSE UNION {{T \cup {x} : T \in KSubsets({y \in S : y > x}, k - 1)} : x \in S}

\* random.sample(range(total_bits), k)
RandomSample(total_bits, k) == KSubsets(SampleBits(total_bits), k)

\* msg[:pos] + ch + msg[pos + 1:]
Substitute(msg, pos, ch) ==
    Slice(msg, 0, pos) \o << ch >> \o Slice(msg, pos + 1, Len(msg))

\* dict.copy(): a new dict, so that writes to it leave the original alone
DictCopy_alias(d) == [aliased |-> TRUE, d |-> d]

DictCopy(d) == [aliased |-> FALSE, d |-> d]

\* what a call leaves behind: the value returned (or the exception raised)
\* and the caller's unit as it is after the call
CorruptOutcome(raised, ret, cmd_dict, copy) ==
    [raised |-> raised, ret |-> ret, corrupted |-> ret # cmd_dict,
     arg_after |-> IF copy.aliased /\ raised = "" THEN ret ELSE cmd_dict]

\* the body of  if random.random() < error_rate and len(...) > 0:
\* for one draw of bit_indices
CorruptWith(cmd_dict, copy, bit_indices) ==
    LET msg        == cmd_dict.command.s
        byte_array == FlipBits(Utf8Encode(msg), bit_indices)
    IN  UNION {
          IF corrupted_msg = msg
          THEN {CorruptOutcome("",
                    [cmd_dict EXCEPT !.command = PyStr(Substitute(msg, pos, ch))],
                    cmd_dict, copy) :
                pos \in 0 .. (Len(msg) - 1),
                ch \in {FallbackAlphabet[j] : j \in DOMAIN FallbackAlphabet}}
          ELSE {CorruptOutcome("", [cmd_dict EXCEPT !.command = PyStr(corrupted_msg)],
                    cmd_dict, copy)}
          : corrupted_msg \in {Utf8DecodeReplace(byte_array)}}

\* every outcome of corrupt_message(cmd_dict, error_rate, flips)
corrupt_message(cmd_dict, rate, flips) ==
    IF ~cmd_dict.isdict THEN {CorruptOutcome("", cmd_dict, cmd_dict, DictCopy(cmd_dict))}
    ELSE
    LET copy    == DictCopy(cmd_dict)
        command == Get(cmd_dict.command, PyStr(<< >>))
        total_bits == Len(Utf8Encode(command.s)) * 8
        k       == Min(flips, total_bits)
    IN  UNION {
          IF ~fires THEN {CorruptOutcome("", cmd_dict, cmd_dict, copy)}
          ELSE IF command.t # "str" THEN {CorruptOutcome("TypeError", cmd_dict, cmd_dict, copy)}
          ELSE IF ~(Len(command.s) > 0) THEN {CorruptOutcome("", cmd_dict, cmd_dict, copy)}
          ELSE IF k < 0 THEN {CorruptOutcome("ValueError", cmd_dict, cmd_dict, copy)}
          ELSE UNION {CorruptWith(cmd_dict, copy, bit_indices) :
                        bit_indices \in RandomSample(total_bits, k)}
          : fires \in RandomBelow(rate)}

\* ------------------------------------------------------------------------
\* Text and number helpers of the attack code
\* ------------------------------------------------------------------------
\* index (0-based) of the first occurrence of text sub in s at or after i, or -1
RECURSIVE FindText(_, _, _)
FindText(s, sub, i) ==
    IF i + Len(sub) > Len(s) THEN -1
    ELSE IF SubSeq(s, i + 1, i + Len(sub)) = sub THEN i
    ELSE FindText(s, sub, i + 1)

\* sub in s
Contains(s, sub) == FindText(s, sub, 0) >= 0

\* s.replace(old, new) for a non-empty old: every occurrence, left to right
RECURSIVE Replace(_, _, _)
Replace(s, old, new) ==
    LET i == FindText(s, old, 0)
    IN  IF i < 0 THEN s
        ELSE Slice(s, 0, i) \o new \o Replace(Slice(s, i + Len(old), Len(s)), old, new)

\* int(a / b) for b > 0: truncation toward zero
Trunc(a, b) == IF a >= 0 THEN a \div b ELSE 0 - ((0 - a) \div b)

DropFirst_trailing(list, n) ==
    SubSeq(list, 1, Len(list) - Min(Max(n, 0), Len(list)))

\* list[n:]
DropFirst(list, n) ==
    LET start == IF n < 0 THEN Max(Len(list) + n, 0) ELSE Min(n, Len(list))
    IN  SubSeq(list, start + 1, Len(list))

\* list.insert(pos, x) for 0 <= pos <= len(list)
InsertAt(list, pos, x) == SubSeq(list, 1, pos) \o << x >> \o SubSeq(list, pos + 1, Len(list))

\* -value * 1.5, computed in exact decimal arithmetic.  The binary product
\* agrees with it for the controller outputs of ControlOutputs; for other
\* values (0.1 gives -0.15000000000000002) the float product can differ in
\* its last digits.
NegTimes15(value) ==
    IF value.t = "nan" THEN FloatNan
    ELSE IF value.t = "inf" THEN FloatInf(~value.neg)
    ELSE Normalize(~value.neg, value.m * 15, value.e - 1)

\* telemetry values are exact fractions n / d, d > 0, in lowest terms
RECURSIVE Gcd(_, _)
Gcd(a, b) == IF b = 0 THEN a ELSE Gcd(b, a % b)

Fraction(n, d) ==
    LET g == Gcd(IF n < 0 THEN 0 - n ELSE n, d)
    IN  IF n = 0 THEN [n |-> 0, d |-> 1] ELSE [n |-> n \div g, d |-> d \div g]

Times_identity(x, num, den) == x

Times_inverted(x, num, den) == Fraction(x.n * den, x.d * num)

\* x * (num / den)
Times(x, num, den) == Fraction(x.n * num, x.d * den)

\* a telemetry dict: each key present or not
Telemetry(soc, alt, power) ==
    [has_battery_soc |-> TRUE, battery_soc |-> soc,
     has_altitude |-> TRUE, altitude |-> alt,
     has_power_consumption |-> TRUE, power_consumption |-> power]

\* ------------------------------------------------------------------------
\* CommandSpoofer (cyberattack/spoof.py)
\* ------------------------------------------------------------------------
\* signer_private_key=None
NoKey == ""

CmdTypes == {allowed_cmd_types[i] : i \in DOMAIN allowed_cmd_types}

\* values of random.uniform(-0.01, 0.01), random.uniform(-2000, 2000) and
\* random.uniform(-1, 1), in millionths as ".6f" rounds them
SmallSpoofValues == {[neg |-> FALSE, micro |-> 5000]}

LargeSpoofValues == {[neg |-> TRUE, micro |-> 1500000000]}

UnitSpoofValues == {[neg |-> FALSE, micro |-> 500000]}

SpoofValues(cmd_type) ==
    IF StartsWith(cmd_type, THRUST) THEN SmallSpoofValues \cup LargeSpoofValues
    ELSE IF StartsWith(cmd_type, RW_TORQUE) THEN SmallSpoofValues
    ELSE UnitSpoofValues

\* the signature of a forged unit: the signer's, or os.urandom(16).hex()
SpoofSignature_always_signed(signer_private_key, cmd_with_md5, use_real_signer) ==
    sign_command(signer_private_key, cmd_with_md5)

SpoofSignature_never_signed(signer_private_key, cmd_with_md5, use_real_signer) ==
    SigHex(Urandom(16, 1))

SpoofSignature(signer_private_key, cmd_with_md5, use_real_signer) ==
    IF use_real_signer THEN sign_command(signer_private_key, cmd_with_md5)
    ELSE SigHex(Urandom(16, 1))

\* every unit make_spoofed_cmd_dict(cmd_type, use_real_signer) can return
make_spoofed_cmd_dict(signer_private_key, cmd_type, use_real_signer) ==
    {LET cmd_body     == cmd_type \o << Colon >> \o FormatF6(val)
         cmd_with_md5 == WithChecksum(cmd_body)
     IN  Unit(PyStr(cmd_with_md5), "ed25519",
              SpoofSignature(signer_private_key, cmd_with_md5, use_real_signer)) :
     val \in SpoofValues(cmd_type)}

\* every unit the spoofer can forge under this attack
Forgeries(signer_private_key, attack) ==
    UNION {make_spoofed_cmd_dict(signer_private_key, ty, attack.has_compromised_key) :
           ty \in CmdTypes}

\* mode 'insert': n times, a forged unit at a position 0 .. len
RECURSIVE SpoofInsert(_, _, _, _)
SpoofInsert(signer_private_key, attack, modified_commands, n) ==
    IF n <= 0 THEN {modified_commands}
    ELSE UNION {SpoofInsert(signer_private_key, attack,
                            InsertAt(modified_commands, insert_pos, spoof_cmd), n - 1) :
                spoof_cmd \in Forgeries(signer_private_key, attack),
                insert_pos \in 0 .. Len(modified_commands)}

\* mode 'replace': the type of the forged unit that replaces orig
ReplaceTypes(orig) ==
    IF orig.isdict /\ orig.command.t = "str"
       /\ SplitFirst(orig.command.s, Colon) \in CmdTypes
    THEN {SplitFirst(orig.command.s, Colon)} \cup CmdTypes
    ELSE CmdTypes

\* the units at replace_indices are replaced, one index after the other
RECURSIVE SpoofReplace(_, _, _, _)
SpoofReplace(signer_private_key, attack, modified_commands, replace_indices) ==
    IF replace_indices = {} THEN {modified_commands}
    ELSE LET idx == CHOOSE i \in replace_indices : \A j \in replace_indices : i <= j
         IN  UNION {SpoofReplace(signer_private_key, attack,
                                 [modified_commands EXCEPT ![idx + 1] = spoof_cmd],
                                 replace_indices \ {idx}) :
                    spoof_cmd \in UNION {make_spoofed_cmd_dict(signer_private_key, ty,
                                                               attack.has_compromised_key) :
                                         ty \in ReplaceTypes(modified_commands[idx + 1])}}

RECURSIVE SpoofAppend_prepends(_, _, _, _)
SpoofAppend_prepends(signer_private_key, attack, modified_commands, n) ==
    IF n <= 0 THEN {modified_commands}
    ELSE UNION {SpoofAppend_prepends(signer_private_key, attack,
                                     << spoof_cmd >> \o modified_commands, n - 1) :
                spoof_cmd \in Forgeries(signer_private_key, attack)}

\* default mode: n forged units appended
RECURSIVE SpoofAppend(_, _, _, _)
SpoofAppend(signer_private_key, attack, modified_commands, n) ==
    IF n <= 0 THEN {modified_commands}
    ELSE UNION {SpoofAppend(signer_private_key, attack,
                            Append(modified_commands, spoof_cmd), n - 1) :
                spoof_cmd \in Forgeries(signer_private_key, attack)}

NumToGenerate_no_floor(attack, base_commands) ==
    Trunc(Len(base_commands) * attack.intensity, 100)

\* int(len(self.base_commands) * self.attack.intensity), at least 1 for a
\* positive intensity
NumToGenerate(attack, base_commands) ==
    LET num_to_generate == Trunc(Len(base_commands) * attack.intensity, 100)
    IN  IF attack.intensity > 0 /\ num_to_generate = 0 THEN 1 ELSE num_to_generate

spoof_unclamped(signer_private_key, attack, base_commands, modified_commands) ==
    LET n == NumToGenerate(attack, base_commands)
    IN  IF attack.spoof_mode = "insert"
        THEN {[raised |-> "", commands |-> c] :
              c \in SpoofInsert(signer_private_key, attack, modified_commands, n)}
        ELSE IF attack.spoof_mode = "replace"
        THEN IF n < 0 \/ n > Len(modified_commands)
             THEN {[raised |-> "ValueError", commands |-> modified_commands]}
             ELSE {[raised |-> "", commands |-> c] :
                   c \in UNION {SpoofReplace(signer_private_key, attack,
                                             modified_commands, idxs) :
                                idxs \in KSubsets(Range(Len(modified_commands)), n)}}
        ELSE {[raised |-> "", commands |-> c] :
              c \in SpoofAppend(signer_private_key, attack, modified_commands, n)}

\* every outcome of CommandSpoofer(attack, base_commands, key).spoof(list)
spoof(signer_private_key, attack, base_commands, modified_commands) ==
    LET n == NumToGenerate(attack, base_commands)
        replace_count == Min(n, Len(modified_commands))
    IN  IF attack.spoof_mode = "insert"
        THEN {[raised |-> "", commands |-> c] :
              c \in SpoofInsert(signer_private_key, attack, modified_commands, n)}
        ELSE IF attack.spoof_mode = "replace"
        THEN IF replace_count < 0
             THEN {[raised |-> "ValueError", commands |-> modified_commands]}
             ELSE {[raised |-> "", commands |-> c] :
                   c \in UNION {SpoofReplace(signer_private_key, attack,
                                             modified_commands, idxs) :
                                idxs \in KSubsets(Range(Len(modified_commands)),
                                                  replace_count)}}
        ELSE {[raised |-> "", commands |-> c] :
              c \in SpoofAppend(signer_private_key, attack, modified_commands, n)}

\* ------------------------------------------------------------------------
\* CyberAttackManager.apply_attack
\* ------------------------------------------------------------------------
\* the early return of manager.py:46
OutsideWindow(attack, current_time) ==
    \/ current_time < attack.start_time
    \/ current_time > attack.start_time + attack.duration

\* MaliciousDetumble on one unit; an exception leaves the unit as it is
Detumble(cmd) ==
    IF ~cmd.isdict THEN cmd
    ELSE LET command == Get(cmd.command, PyStr(<< >>))
             parts   == SplitAll(command.s, Colon)
             value   == ParseFloat(SplitFirst(parts[2], Bar))
         IN  IF command.t # "str" THEN cmd
             ELSE IF ~Contains(command.s, RW_TORQUE) THEN cmd
             ELSE IF ~(Len(parts) >= 2) THEN cmd
             ELSE IF value.t = "ValueError" THEN cmd
             ELSE [cmd EXCEPT !.command =
                       PyStr(Replace(command.s, FloatRepr(value),
                                     FloatRepr(NegTimes15(value))))]

\* "THRUST_Z:-0.005000|<checksum>" under a signature of 16 random bytes
OrbitManipulationUnit ==
    Unit(PyStr(WithChecksum(THRUST_Z \o << Colon >>
                            \o FormatF6([neg |-> TRUE, micro |-> 5000]))),
         "ed25519", SigHex(Urandom(16, 1)))

RECURSIVE Repeat_one_more(_, _)
Repeat_one_more(x, n) ==
    IF n < 0 THEN << >> ELSE << x >> \o Repeat_one_more(x, n - 1)

\* x appended n times
RECURSIVE Repeat(_, _)
Repeat(x, n) == IF n <= 0 THEN << >> ELSE << x >> \o Repeat(x, n - 1)

\* every outcome of apply_attack: the triple returned (or the exception
\* raised) and the caller's list and telemetry dict as they are after the call
apply_attack(attack, current_time, cmds, telemetry_data, signer_private_key) ==
    LET same == [raised |-> "", commands |-> cmds, telemetry |-> telemetry_data,
                 error_rate |-> base_error_rate, caller_commands |-> cmds,
                 caller_telemetry |-> telemetry_data]
        i    == attack.intensity
        ty   == attack.attack_type
    IN  IF OutsideWindow(attack, current_time) THEN {same}
        ELSE IF ty = "COMMAND_SPOOFING"
        THEN IF signer_private_key = NoKey
             THEN {[same EXCEPT !.raised = "AttributeError"]}
             ELSE {[same EXCEPT !.raised = r.raised, !.commands = r.commands] :
                   r \in spoof(signer_private_key, attack, cmds, cmds)}
        ELSE IF ty = "TELEMETRY_FALSIFICATION"
        THEN {[same EXCEPT !.telemetry =
                 [telemetry_data EXCEPT
                    !.battery_soc = IF telemetry_data.has_battery_soc
                                    THEN Times(@, 200 + i, 200) ELSE @,
                    !.altitude = IF telemetry_data.has_altitude
                                 THEN Times(@, 1000 + i, 1000) ELSE @]]}
        ELSE IF ty = "DENIAL_OF_SERVICE"
        THEN {[same EXCEPT !.error_rate = base_error_rate + i * 70,
                           !.commands = DropFirst(cmds, Trunc(Len(cmds) * i, 100))]}
        ELSE IF ty = "BATTERY_DEPLETION"
        THEN {[same EXCEPT !.telemetry =
                 [telemetry_data EXCEPT
                    !.has_power_consumption = TRUE,
                    !.power_consumption =
                        Times(IF telemetry_data.has_power_consumption THEN @
                              ELSE Fraction(50, 1), 100 + 2 * i, 100)]]}
        ELSE IF ty = "MALICIOUS_DETUMBLE"
        THEN LET modified_commands ==
                     IF cmds = << >> THEN << >>
                     ELSE [j \in DOMAIN cmds |-> Detumble(cmds[j])]
             IN  {[same EXCEPT !.commands = modified_commands,
                               !.caller_commands = modified_commands]}
        ELSE IF ty = "ORBIT_MANIPULATION"
        THEN {[same EXCEPT !.commands =
                 cmds \o Repeat(OrbitManipulationUnit, Trunc(i * 3, 100))]}
        ELSE {same}

\* ------------------------------------------------------------------------
\* Inputs of the manager's interface
\* ------------------------------------------------------------------------
\* the scenario list of main.py, a list with overlapping windows, no scenario
ScenarioLists ==
    { << CyberScenario("NONE", 0, 500, 0, "insert", FALSE),
         CyberScenario("COMMAND_SPOOFING", 5000, 3000, 70, "insert", FALSE) >>,
      << CyberScenario("DENIAL_OF_SERVICE", 0, 5000, 90, "insert", FALSE),
         CyberScenario("TELEMETRY_FALSIFICATION", 500, 7500, 50, "insert", FALSE),
         CyberScenario("BATTERY_DEPLETION", 8000, 0, 80, "insert", FALSE) >>,
      << >> }

DefenseConfigs ==
    {NoDefenseConfig, ConfigWithoutAttr, DefenseSystemConfig(TRUE),
     DefenseSystemConfig(FALSE)}

ApiTimes == {-1, 0, 499, 500, 501, 4999, 5000, 7999, 8000, 8001}

ApiKeyBytes == {PublicBytes(RunKey), PublicBytes(OtherKey), [len |-> 31, of |-> RunKey]}

\* "THRUST_X:0.001000|<checksum>", as the simulator sends it
WireA == WithChecksum(THRUST_X \o << Colon >> \o FormatF6([neg |-> FALSE, micro |-> 1000]))

\* "RW_TORQUE_Z:-0.002500|<checksum>"
WireB == WithChecksum(RW_TORQUE_Z \o << Colon >> \o FormatF6([neg |-> TRUE, micro |-> 2500]))

\* every text one bit away from s, as it reads after decoding
OneBitOff(s) ==
    {Utf8DecodeReplace(FlipBit(Utf8Encode(s), i)) : i \in Range(Len(Utf8Encode(s)) * 8)}

ApiCommands ==
    {PyStr(WireA), PyStr(WireB), PyStr(THRUST_X), PyStr(<< >>), PyStr(<< Bar >>),
     PyMissing, PyInt}

ApiSignatures ==
    {sign_command(RunKey, WireA), sign_command(RunKey, WireB),
     sign_command(OtherKey, WireA), sign_command(RunKey, SplitFirst(WireA, Bar)),
     SigHex(Urandom(16, 1)), SigHex(Urandom(64, 1)), SigHex(NoBytes),
     SigBadHex, SigMissing, SigInt}

ApiUnits ==
    {Unit(c, a, g) : c \in ApiCommands, a \in {"ed25519", "hmac", ""}, g \in ApiSignatures}
    \cup {Unit(PyStr(s), "ed25519", sign_command(RunKey, WireA)) : s \in OneBitOff(WireA)}
    \cup {NotADict}

\* short texts for the channel: "X", "1|", U+FFFD, "", and non-text
ChannelCommands ==
    {PyStr(<< 88 >>), PyStr(<< 49, Bar >>), PyStr(<< ReplacementChar >>),
     PyStr(<< >>), PyMissing, PyInt}

ChannelUnits ==
    {Unit(c, a, g) : c \in ChannelCommands, a \in {"ed25519", ""},
                     g \in {SigHex(Urandom(16, 1)), SigMissing}}
    \cup {NotADict}

ChannelRates == {0, 5000, 10000, 16300}

NoCall ==
    [op |-> "none", unit |-> NotADict, error_rate |-> 0, flips |-> 0, t |-> 0,
     raised |-> "", ret_val |-> PyNone, ret_unit |-> NotADict, ret_idx |-> 0,
     arg_after |-> NotADict,
     attack |-> CyberScenario("NONE", 0, 0, 0, "insert", FALSE),
     commands |-> << >>, telemetry_data |-> Telemetry(Fraction(0, 1), Fraction(0, 1),
                                                      Fraction(0, 1)),
     signer_private_key |-> NoKey, ret_commands |-> << >>,
     ret_telemetry |-> Telemetry(Fraction(0, 1), Fraction(0, 1), Fraction(0, 1)),
     ret_error_rate |-> 0, commands_after |-> << >>,
     telemetry_after |-> Telemetry(Fraction(0, 1), Fraction(0, 1), Fraction(0, 1))]

\* ------------------------------------------------------------------------
\* SatelliteSimulator.run: one pass of the step loop after the other
\* ------------------------------------------------------------------------
\* steps of a run (sim_config.time_steps)
MaxSteps == 2

\* messages the channel may corrupt in one step; after that many the step
\* is followed only while the channel lets messages through
MaxCorruptions == 1

\* sim_config.dt of main.py
Dt == 10

\* sat_config.power_draw_baseline of main.py, and the two additions to it
power_draw_baseline == 150

LinkDraw == 25

SunDraw == 5

\* the flips parameter left at its default by the run loop
DefaultFlips == 2

\* the controller's outputs of one step, in millionths as ".6f" rounds
\* them: thrust inside the dead band with a torque demand, and both active
ControlOutputs ==
    {[thrust_accel |-> << [neg |-> FALSE, micro |-> 0], [neg |-> FALSE, micro |-> 0],
                          [neg |-> FALSE, micro |-> 0] >>,
      control_torque |-> << [neg |-> FALSE, micro |-> 1000], [neg |-> TRUE, micro |-> 2500],
                            [neg |-> FALSE, micro |-> 0] >>],
     [thrust_accel |-> << [neg |-> FALSE, micro |-> 1000], [neg |-> TRUE, micro |-> 2000],
                          [neg |-> TRUE, micro |-> 0] >>,
      control_torque |-> << [neg |-> FALSE, micro |-> 50], [neg |-> TRUE, micro |-> 2500],
                            [neg |-> FALSE, micro |-> 2000] >>]}

\* link and eclipse as the subsystems report them after propagation
EnvStates ==
    {[link_active |-> FALSE, in_eclipse |-> TRUE],
     [link_active |-> TRUE, in_eclipse |-> FALSE]}

\* the physical state is not propagated: the true readings stay where the
\* constructor puts them (80 % charge, initial_altitude = 1000 km)
TrueBatterySoc == Fraction(80, 1)

TrueAltitude == Fraction(1000, 1)

\* one scenario list and base error rate per run: no scenario, the shape of
\* main.py (an idle window, then spoofing), and each attack from t = 0
\* (battery depletion for two steps, the others for one)
SimRuns ==
    {[scenarios |-> << >>, base_error_rate |-> 2000],
     [scenarios |-> << CyberScenario("NONE", 0, Dt, 0, "insert", FALSE),
                       CyberScenario("COMMAND_SPOOFING", Dt, Dt, 20, "insert", FALSE) >>,
      base_error_rate |-> 0],
     [scenarios |-> << CyberScenario("COMMAND_SPOOFING", 0, Dt, 20, "insert", TRUE) >>,
      base_error_rate |-> 0],
     [scenarios |-> << CyberScenario("COMMAND_SPOOFING", 0, Dt, 20, "replace", FALSE) >>,
      base_error_rate |-> 0],
     [scenarios |-> << CyberScenario("COMMAND_SPOOFING", 0, Dt, 20, "replace", TRUE) >>,
      base_error_rate |-> 0],
     [scenarios |-> << CyberScenario("COMMAND_SPOOFING", 0, Dt, 20, "append", FALSE) >>,
      base_error_rate |-> 2000],
     [scenarios |-> << CyberScenario("COMMAND_SPOOFING", 0, Dt, 20, "append", TRUE) >>,
      base_error_rate |-> 0],
     [scenarios |-> << CyberScenario("DENIAL_OF_SERVICE", 0, Dt, 90, "insert", FALSE) >>,
      base_error_rate |-> 2000],
     [scenarios |-> << CyberScenario("MALICIOUS_DETUMBLE", 0, Dt, 50, "insert", FALSE) >>,
      base_error_rate |-> 2000],
     [scenarios |-> << CyberScenario("ORBIT_MANIPULATION", 0, Dt, 70, "insert", FALSE) >>,
      base_error_rate |-> 0],
     [scenarios |-> << CyberScenario("TELEMETRY_FALSIFICATION", 0, Dt, 50, "insert", FALSE) >>,
      base_error_rate |-> 0],
     [scenarios |-> << CyberScenario("BATTERY_DEPLETION", 0, 2 * Dt, 80, "insert", FALSE) >>,
      base_error_rate |-> 0]}

SimDefenseConfigs == {DefenseSystemConfig(TRUE), DefenseSystemConfig(FALSE)}

Zeros3 == << FloatZero, FloatZero, FloatZero >>

NoLast == [valid |-> FALSE, command_dict |-> NotADict, corrupted |-> FALSE,
           verified |-> PyNone]

NoActuation == [thrust |-> Zeros3, torque |-> Zeros3]

NoPacket == [battery_soc |-> Fraction(0, 1), altitude |-> Fraction(0, 1),
             verified_cmds |-> 0, attack_active |-> FALSE]

\* the six base commands of a step
base_cmds(thrust_accel, control_torque) ==
    << THRUST_X \o << Colon >> \o FormatF6(thrust_accel[1]),
       THRUST_Y \o << Colon >> \o FormatF6(thrust_accel[2]),
       THRUST_Z \o << Colon >> \o FormatF6(thrust_accel[3]),
       RW_TORQUE_X \o << Colon >> \o FormatF6(control_torque[1]),
       RW_TORQUE_Y \o << Colon >> \o FormatF6(control_torque[2]),
       RW_TORQUE_Z \o << Colon >> \o FormatF6(control_torque[3]) >>

\* ------------------------------------------------------------------------
\* Inputs of apply_attack called on its own
\* ------------------------------------------------------------------------
\* every scenario below is active from AttackStart for AttackDuration
AttackStart == 100

AttackDuration == 50

\* before the window, its first instant, its end, after it
AttackTimes ==
    {AttackStart - 1, AttackStart, AttackStart + AttackDuration,
     AttackStart + AttackDuration + 1}

Scenario(attack_type, intensity, spoof_mode, compromised) ==
    CyberScenario(attack_type, AttackStart, AttackDuration, intensity, spoof_mode,
                  compromised)

\* spoofing in each placement mode ("append" and "prepend" are both modes
\* other than 'insert' and 'replace'), with and without the stolen key
SpoofScenarios ==
    {Scenario("COMMAND_SPOOFING", i, m, k) :
        i \in {-50, 0, 10, 50, 100}, m \in {"insert", "append", "prepend"},
        k \in BOOLEAN}
    \cup {Scenario("COMMAND_SPOOFING", i, "replace", k) :
            i \in {-50, 0, 10, 50, 150}, k \in BOOLEAN}

TelemetryScenarios ==
    {Scenario("TELEMETRY_FALSIFICATION", i, "insert", FALSE) : i \in {0, 50, 100}}
    \cup {Scenario("BATTERY_DEPLETION", i, "insert", FALSE) : i \in {0, 80, 100}}

BatchScenarios ==
    {Scenario("DENIAL_OF_SERVICE", i, "insert", FALSE) : i \in {0, 20, 50, 90, 100}}
    \cup {Scenario("ORBIT_MANIPULATION", i, "insert", FALSE) : i \in {0, 30, 70, 100, 150}}
    \cup {Scenario("MALICIOUS_DETUMBLE", 50, "insert", FALSE),
          Scenario("NONE", 0, "insert", FALSE)}

\* the batch the run loop builds from one controller output
SimBatch(c) ==
    LET cmds == base_cmds(c.thrust_accel, c.control_torque)
    IN  [i \in DOMAIN cmds |-> SignedUnit(RunKey, cmds[i])]

\* ten commands "THRUST_X:0.00k000|<checksum>", k = 1 .. 10
TenBatch ==
    [k \in 1 .. 10 |->
        SignedUnit(RunKey, THRUST_X \o << Colon >>
                           \o FormatF6([neg |-> FALSE, micro |-> 1000 * k]))]

\* no command, one, two, and a list whose entry is not a dict
SmallBatches ==
    { << >>,
      << Unit(PyStr(WireA), "ed25519", sign_command(RunKey, WireA)) >>,
      << Unit(PyStr(WireA), "ed25519", sign_command(RunKey, WireA)),
         Unit(PyStr(WireB), "ed25519", sign_command(RunKey, WireB)) >>,
      << NotADict >> }

\* entries that are not well-formed units, before a wheel-torque command
OddBatch ==
    << NotADict, Unit(PyInt, "ed25519", SigMissing),
       Unit(PyStr(WireB), "ed25519", sign_command(RunKey, WireB)) >>

LargeBatches == {SimBatch(c) : c \in ControlOutputs} \cup {TenBatch, OddBatch}

FullTelemetry ==
    Telemetry(TrueBatterySoc, TrueAltitude, Fraction(power_draw_baseline, 1))

\* all keys present, only power_consumption, only battery_soc and altitude
AttackTelemetry ==
    {FullTelemetry,
     [FullTelemetry EXCEPT !.has_battery_soc = FALSE, !.has_altitude = FALSE],
     [FullTelemetry EXCEPT !.has_power_consumption = FALSE]}

AttackKeys == {RunKey, NoKey}

AttackArgs(attack, current_time, cmds, telemetry_data, signer_private_key) ==
    [attack |-> attack, current_time |-> current_time, commands |-> cmds,
     telemetry_data |-> telemetry_data, signer_private_key |-> signer_private_key]

\* the calls made: the part of the product of the inputs in which the
\* argument that the attack kind works on varies, and the six-command batch
\* under appending of intensity 0.5
AttackCalls ==
    {AttackArgs(a, t, c, FullTelemetry, k) :
        a \in SpoofScenarios, t \in AttackTimes, c \in SmallBatches, k \in AttackKeys}
    \cup {AttackArgs(Scenario("COMMAND_SPOOFING", 50, m, FALSE), AttackStart,
                     SimBatch(CHOOSE c \in ControlOutputs : TRUE), FullTelemetry, RunKey) :
            m \in {"append"}}
    \cup {AttackArgs(a, t, c, d, k) :
            a \in TelemetryScenarios, t \in AttackTimes, c \in {TenBatch},
            d \in AttackTelemetry, k \in AttackKeys}
    \cup {AttackArgs(a, t, c, FullTelemetry, k) :
            a \in BatchScenarios, t \in AttackTimes,
            c \in SmallBatches \cup LargeBatches, k \in AttackKeys}

\* the variables of the run as they are before run() is called
SimIdle ==
    /\ pc = "idle"
    /\ step = 0
    /\ active_attack = 0
    /\ control = CHOOSE c \in ControlOutputs : TRUE
    /\ commands = << >>
    /\ signed = {}
    /\ forged = {}
    /\ telemetry_for_attack = Telemetry(TrueBatterySoc, TrueAltitude,
                                        Fraction(power_draw_baseline, 1))
    /\ error_rate = 0
    /\ cmd_index = 1
    /\ thrust_accel_actual = Zeros3
    /\ control_torque_actual = Zeros3
    /\ verified_count = 0
    /\ applied = {}
    /\ last = NoLast
    /\ corruptions = 0
    /\ propagated = NoActuation
    /\ power_consumption = Fraction(power_draw_baseline, 1)
    /\ published = NoPacket

\* ------------------------------------------------------------------------
\* The manager's interface: one call at a time, in any order
\* ------------------------------------------------------------------------
ApiInit ==
    /\ scenarios \in ScenarioLists
    /\ defense_config \in DefenseConfigs
    /\ base_error_rate = 2000
    /\ public_key = NoPublicKey
    /\ call = NoCall
    /\ sim_config = [time_steps |-> 0, dt |-> Dt, base_error_rate |-> 2000]
    /\ ed_privkey = RunKey
    /\ SimIdle

ApiSetPublicKey ==
    /\ call = NoCall
    /\ \E b \in ApiKeyBytes :
        /\ public_key' = set_public_key(b)
        /\ call' = NoCall
        /\ UNCHANGED << scenarios, defense_config, base_error_rate, sim_vars >>

ApiGetActiveAttack ==
    /\ call = NoCall
    /\ \E t \in ApiTimes :
        /\ call' = [NoCall EXCEPT !.op = "get_active_attack", !.t = t,
                                  !.ret_idx = get_active_attack(t)]
        /\ UNCHANGED << mgr_vars, sim_vars >>

ApiVerifyCommand ==
    /\ call = NoCall
    /\ \E msg \in ApiUnits :
        LET r == verify_command(msg)
        IN  /\ call' = [NoCall EXCEPT !.op = "verify_command", !.unit = msg,
                                      !.raised = r.raised, !.ret_val = r.v]
            /\ UNCHANGED << mgr_vars, sim_vars >>

\* the caller takes the result; the manager is ready for the next call
ApiReturn ==
    /\ call # NoCall
    /\ call' = NoCall
    /\ UNCHANGED << mgr_vars, sim_vars >>

ApiNext == ApiSetPublicKey \/ ApiGetActiveAttack \/ ApiVerifyCommand \/ ApiReturn

SpecApi == ApiInit /\ [][ApiNext]_vars

\* ------------------------------------------------------------------------
\* The corruption channel on its own
\* ------------------------------------------------------------------------
ChannelInit ==
    /\ scenarios = << >>
    /\ defense_config = DefenseSystemConfig(TRUE)
    /\ base_error_rate = 2000
    /\ public_key = set_public_key(PublicBytes(RunKey))
    /\ call = NoCall
    /\ sim_config = [time_steps |-> 0, dt |-> Dt, base_error_rate |-> 2000]
    /\ ed_privkey = RunKey
    /\ SimIdle

ChannelCorruptMessage ==
    /\ call = NoCall
    /\ \E cmd_dict \in ChannelUnits, rate \in ChannelRates, flips \in -1 .. MaxFlips :
        \E o \in corrupt_message(cmd_dict, rate, flips) :
            /\ call' = [NoCall EXCEPT !.op = "corrupt_message", !.unit = cmd_dict,
                                      !.error_rate = rate, !.flips = flips,
                                      !.raised = o.raised, !.ret_unit = o.ret,
                                      !.arg_after = o.arg_after]
            /\ UNCHANGED << mgr_vars, sim_vars >>

ChannelNext == ChannelCorruptMessage \/ ApiReturn

SpecChannel == ChannelInit /\ [][ChannelNext]_vars

\* ------------------------------------------------------------------------
\* apply_attack on its own: the manager is given a scenario, a time, a batch
\* and a telemetry snapshot by its caller
\* ------------------------------------------------------------------------
AttackInit ==
    /\ scenarios = << >>
    /\ defense_config \in SimDefenseConfigs
    /\ base_error_rate = 2000
    /\ public_key = set_public_key(PublicBytes(RunKey))
    /\ call = NoCall
    /\ sim_config = [time_steps |-> 0, dt |-> Dt, base_error_rate |-> 2000]
    /\ ed_privkey = RunKey
    /\ SimIdle

AttackApplyAttack ==
    /\ call = NoCall
    /\ \E a \in AttackCalls :
        \E o \in apply_attack(a.attack, a.current_time, a.commands, a.telemetry_data,
                              a.signer_private_key) :
            /\ call' = [NoCall EXCEPT !.op = "apply_attack", !.attack = a.attack,
                                      !.t = a.current_time, !.commands = a.commands,
                                      !.telemetry_data = a.telemetry_data,
                                      !.signer_private_key = a.signer_private_key,
                                      !.raised = o.raised,
                                      !.ret_commands = o.commands,
                                      !.ret_telemetry = o.telemetry,
                                      !.ret_error_rate = o.error_rate,
                                      !.commands_after = o.caller_commands,
                                      !.telemetry_after = o.caller_telemetry]
            /\ UNCHANGED << mgr_vars, sim_vars >>

AttackNext == AttackApplyAttack \/ ApiReturn

SpecAttack == AttackInit /\ [][AttackNext]_vars

\* ------------------------------------------------------------------------
\* The run
\* ------------------------------------------------------------------------
\* SatelliteSimulator.__init__ followed by the call of run()
Init ==
    /\ \E r \in SimRuns :
        /\ scenarios = r.scenarios
        /\ base_error_rate = r.base_error_rate
        /\ sim_config = [time_steps |-> MaxSteps, dt |-> Dt,
                         base_error_rate |-> r.base_error_rate]
    /\ defense_config \in SimDefenseConfigs
    /\ ed_privkey = RunKey
    /\ public_key = set_public_key(PublicBytes(RunKey))
    /\ call = NoCall
    /\ pc = "loop"
    /\ step = 0
    /\ active_attack = 0
    /\ control = CHOOSE c \in ControlOutputs : TRUE
    /\ commands = << >>
    /\ signed = {}
    /\ forged = {}
    /\ telemetry_for_attack = Telemetry(TrueBatterySoc, TrueAltitude,
                                        Fraction(power_draw_baseline, 1))
    /\ error_rate = 0
    /\ cmd_index = 1
    /\ thrust_accel_actual = Zeros3
    /\ control_torque_actual = Zeros3
    /\ verified_count = 0
    /\ applied = {}
    /\ last = NoLast
    /\ corruptions = 0
    /\ propagated = NoActuation
    /\ power_consumption = Fraction(power_draw_baseline, 1)
    /\ published = NoPacket

\* sim.py:121-162: lookup of the attack, the controller's outputs, the
\* signed batch and the telemetry handed to the attack; what the previous
\* pass left in the loop's locals is never read again and is cleared
StepBegin ==
    /\ pc = "loop"
    /\ step < sim_config.time_steps
    /\ \E c \in ControlOutputs :
        LET current_time == step * sim_config.dt
            cmds == base_cmds(c.thrust_accel, c.control_torque)
        IN  /\ active_attack' = get_active_attack(current_time)
            /\ control' = c
            /\ commands' = [i \in DOMAIN cmds |-> SignedUnit(ed_privkey, cmds[i])]
            /\ signed' = {WithChecksum(cmds[i]) : i \in DOMAIN cmds}
    /\ telemetry_for_attack' = Telemetry(TrueBatterySoc, TrueAltitude, power_consumption)
    /\ forged' = {}
    /\ applied' = {}
    /\ last' = NoLast
    /\ propagated' = NoActuation
    /\ published' = NoPacket
    /\ error_rate' = 0
    /\ cmd_index' = 1
    /\ thrust_accel_actual' = Zeros3
    /\ control_torque_actual' = Zeros3
    /\ verified_count' = 0
    /\ corruptions' = 0
    /\ pc' = "attack"
    /\ UNCHANGED << scenarios, defense_config, base_error_rate, public_key, call,
                    sim_config, ed_privkey, step, power_consumption >>

\* sim.py:164-179: the attack stage, then the actuation vectors are zeroed
ApplyAttack ==
    /\ pc = "attack"
    /\ IF active_attack # 0
       THEN \E o \in apply_attack(scenarios[active_attack], step * sim_config.dt,
                                  commands, telemetry_for_attack, ed_privkey) :
               IF o.raised # ""
               THEN /\ pc' = "raised"
                    /\ UNCHANGED << commands, telemetry_for_attack, error_rate, forged >>
               ELSE /\ pc' = "process"
                    /\ commands' = o.commands
                    /\ telemetry_for_attack' = o.telemetry
                    /\ error_rate' = o.error_rate
                    /\ forged' = IF scenarios[active_attack].attack_type = "COMMAND_SPOOFING"
                                 THEN {o.commands[i] : i \in DOMAIN o.commands}
                                      \cap Forgeries(ed_privkey, scenarios[active_attack])
                                 ELSE {}
       ELSE /\ pc' = "process"
            /\ error_rate' = sim_config.base_error_rate
            /\ UNCHANGED << commands, telemetry_for_attack, forged >>
    /\ thrust_accel_actual' = Zeros3
    /\ control_torque_actual' = Zeros3
    /\ verified_count' = 0
    /\ cmd_index' = 1
    /\ UNCHANGED << scenarios, defense_config, base_error_rate, public_key, call,
                    sim_config, ed_privkey, step, active_attack, control, signed,
                    applied, last, corruptions, propagated, power_consumption,
                    published >>

NoWrite == [vec |-> "none", idx |-> 0, val |-> FloatZero]

\* {'X': 0, 'Y': 1, 'Z': 2}[axis], -1 for KeyError
AxisIndex(axis) ==
    IF axis = << 88 >> THEN 0
    ELSE IF axis = << 89 >> THEN 1
    ELSE IF axis = << 90 >> THEN 2
    ELSE -1

\* the try block of sim.py:188-201: the write a verified text makes; any
\* exception leaves both vectors as they are
CommandWrite(verified) ==
    LET fields == SplitAll(verified, Colon)
        system == fields[1]
        val    == ParseFloat(fields[2])
        names  == SplitAll(system, Underscore)
    IN  IF Len(fields) # 2 THEN NoWrite
        ELSE IF val.t = "ValueError" THEN NoWrite
        ELSE IF StartsWith(system, THRUST)
        THEN IF Len(names) < 2 \/ AxisIndex(names[2]) < 0 THEN NoWrite
             ELSE [vec |-> "thrust", idx |-> AxisIndex(names[2]), val |-> val]
        ELSE IF StartsWith(system, RW_TORQUE)
        THEN IF Len(names) < 3 \/ AxisIndex(names[3]) < 0 THEN NoWrite
             ELSE [vec |-> "torque", idx |-> AxisIndex(names[3]), val |-> val]
        ELSE NoWrite

StoreWrite_first_wins(vector, name, w) ==
    IF w.vec = name /\ vector[w.idx + 1] = FloatZero
    THEN [vector EXCEPT ![w.idx + 1] = w.val]
    ELSE vector

\* thrust_accel_actual[idx] = val / control_torque_actual[idx] = val: the
\* vector called name after the write w
StoreWrite(vector, name, w) ==
    IF w.vec = name THEN [vector EXCEPT ![w.idx + 1] = w.val] ELSE vector

\* sim.py:181-201: one pass of the command loop (corrupt -> verify -> apply)
ProcessCommand ==
    /\ pc = "process"
    /\ cmd_index <= Len(commands)
    /\ corruptions < MaxCorruptions \/ error_rate < 10000
    /\ LET command_dict == commands[cmd_index]
           rate == IF corruptions < MaxCorruptions THEN error_rate ELSE 0
       IN  \E o \in corrupt_message(command_dict, rate, DefaultFlips) :
           \E verified \in {verify_command(o.ret)} :
           \E w \in {IF Truthy(verified.v) THEN CommandWrite(verified.v.s) ELSE NoWrite} :
            LET noisy_cmd_dict == o.ret
            IN  IF o.raised # "" \/ verified.raised # ""
                THEN /\ pc' = "raised"
                     /\ UNCHANGED << cmd_index, thrust_accel_actual, control_torque_actual,
                                     verified_count, applied, last, corruptions >>
                ELSE /\ pc' = pc
                     /\ cmd_index' = cmd_index + 1
                     /\ corruptions' = IF o.corrupted THEN corruptions + 1 ELSE corruptions
                     /\ verified_count' = IF Truthy(verified.v) THEN verified_count + 1
                                          ELSE verified_count
                     /\ thrust_accel_actual' = StoreWrite(thrust_accel_actual, "thrust", w)
                     /\ control_torque_actual' = StoreWrite(control_torque_actual, "torque", w)
                     /\ applied' = IF w.vec = "none" THEN applied
                                   ELSE applied \cup
                                        {[unit |-> noisy_cmd_dict, vec |-> w.vec,
                                          idx |-> w.idx, val |-> w.val,
                                          pos |-> cmd_index]}
                     /\ last' = [valid |-> TRUE, command_dict |-> command_dict,
                                 corrupted |-> o.corrupted, verified |-> verified.v]
    /\ UNCHANGED << scenarios, defense_config, base_error_rate, public_key, call,
                    sim_config, ed_privkey, step, active_attack, control, commands,
                    signed, forged, telemetry_for_attack, error_rate, propagated,
                    power_consumption, published >>

Propagate_before_loop_ends ==
    /\ pc = "process"
    /\ cmd_index >= 1
    /\ propagated' = [thrust |-> thrust_accel_actual, torque |-> control_torque_actual]
    /\ pc' = "update"
    /\ UNCHANGED << scenarios, defense_config, base_error_rate, public_key, call,
                    sim_config, ed_privkey, step, active_attack, control, commands,
                    signed, forged, telemetry_for_attack, error_rate, cmd_index,
                    thrust_accel_actual, control_torque_actual, verified_count,
                    applied, last, corruptions, power_consumption, published >>

\* sim.py:204-213: the actuation vectors go to the propagator
Propagate ==
    /\ pc = "process"
    /\ cmd_index > Len(commands)
    /\ propagated' = [thrust |-> thrust_accel_actual, torque |-> control_torque_actual]
    /\ pc' = "update"
    /\ UNCHANGED << scenarios, defense_config, base_error_rate, public_key, call,
                    sim_config, ed_privkey, step, active_attack, control, commands,
                    signed, forged, telemetry_for_attack, error_rate, cmd_index,
                    thrust_accel_actual, control_torque_actual, verified_count,
                    applied, last, corruptions, power_consumption, published >>

\* sim.py:218-279: power draw, the telemetry packet and the log row
UpdateSubsystems ==
    /\ pc = "update"
    /\ \E env \in EnvStates :
        LET attack_type == IF active_attack = 0 THEN "none"
                           ELSE scenarios[active_attack].attack_type
            nominal == power_draw_baseline
                       + (IF env.link_active THEN LinkDraw ELSE 0)
                       + (IF ~env.in_eclipse THEN SunDraw ELSE 0)
            consumption == IF attack_type = "BATTERY_DEPLETION"
                           THEN telemetry_for_attack.power_consumption
                           ELSE Fraction(nominal, 1)
            falsified == attack_type = "TELEMETRY_FALSIFICATION"
        IN  /\ power_consumption' = consumption
            /\ published' =
                 [battery_soc |-> IF falsified THEN telemetry_for_attack.battery_soc
                                  ELSE TrueBatterySoc,
                  altitude |-> IF falsified THEN telemetry_for_attack.altitude
                               ELSE TrueAltitude,
                  verified_cmds |-> verified_count,
                  attack_active |-> attack_type \notin {"none", "NONE"}]
    /\ step' = step + 1
    /\ pc' = IF step + 1 < sim_config.time_steps THEN "loop" ELSE "done"
    /\ UNCHANGED << scenarios, defense_config, base_error_rate, public_key, call,
                    sim_config, ed_privkey, active_attack, control, commands,
                    signed, forged, telemetry_for_attack, error_rate, cmd_index,
                    thrust_accel_actual, control_torque_actual, verified_count,
                    applied, last, corruptions, propagated >>

Next == StepBegin \/ ApplyAttack \/ ProcessCommand \/ Propagate \/ UpdateSubsystems

Spec == Init /\ [][Next]_vars

\* where the run is: the stage, the command of the batch, the step
position == << pc, cmd_index, step >>

PcValues == {"idle", "loop", "attack", "process", "update", "done", "raised"}

\* the guards of the five stages: the run has a next stage to execute
Running ==
    \/ pc = "loop" /\ step < sim_config.time_steps
    \/ pc = "attack"
    \/ /\ pc = "process"
       /\ \/ cmd_index > Len(commands)
          \/ corruptions < MaxCorruptions
          \/ error_rate < 10000
    \/ pc = "update"

\* the run moves to another position; every step of Next is such a move
Advance ==
    /\ Running
    /\ pc' \in PcValues
    /\ cmd_index' \in 1 .. (Len(commands) + 1)
    /\ step' \in 0 .. sim_config.time_steps

\* run() is sequential code: while it has a next stage to execute, it
\* executes it
FairSpec == Spec /\ WF_position(Advance)

\* ------------------------------------------------------------------------
\* Properties of the manager's interface (SpecApi)
\* ------------------------------------------------------------------------
\* the configuration that explicitly disables command authentication
ExplicitlyDisabled ==
    ~defense_config.isNone /\ defense_config.hasAttr /\ ~defense_config.enable_key_auth

MainScenarios ==
    << CyberScenario("NONE", 0, 500, 0, "insert", FALSE),
       CyberScenario("COMMAND_SPOOFING", 5000, 3000, 70, "insert", FALSE) >>

\* C2: get_active_attack(t) returns the first scenario in list order whose
\* half-open window [start_time, start_time + duration) contains t, and
\* none when no window contains t; for [A: [0,500), B: [5000,8000)],
\* t = 500 gives none and t = 5000 gives B.
C2_FirstHalfOpenWindowWins ==
    call.op = "get_active_attack" =>
        LET t == call.t
            r == call.ret_idx
            Covers(i) ==
                /\ scenarios[i].start_time <= t
                /\ t < scenarios[i].start_time + scenarios[i].duration
        IN  /\ r \in 0 .. Len(scenarios)
            /\ r # 0 => Covers(r) /\ \A j \in 1 .. (r - 1) : ~Covers(j)
            /\ r = 0 => \A j \in DOMAIN scenarios : ~Covers(j)
            /\ scenarios = MainScenarios /\ t = 500 => r = 0
            /\ scenarios = MainScenarios /\ t = 5000 => r = 2

\* a lookup at the exclusive end of the first window of main.py's list
C2_Witness ==
    /\ call.op = "get_active_attack"
    /\ scenarios = MainScenarios
    /\ call.t = scenarios[1].start_time + scenarios[1].duration
    /\ call.ret_idx = 0

\* C4: with authentication enabled, verify_command returns unverified for
\* every command whose text differs from the wire string its signature was
\* made over.
C4_TamperedBodyRejected ==
    ( /\ call.op = "verify_command"
      /\ ~ExplicitlyDisabled
      /\ call.unit.isdict
      /\ call.unit.command.t = "str"
      /\ call.unit.signature.t = "str"
      /\ call.unit.signature.bytes.src = "sign"
      /\ call.unit.signature.bytes.over # Utf8Encode(call.unit.command.s) )
    => call.raised = "" /\ call.ret_val = PyNone

\* a wire string one bit away from the signed one, under the run's key
C4_Witness ==
    /\ call.op = "verify_command"
    /\ ~ExplicitlyDisabled
    /\ public_key = set_public_key(PublicBytes(RunKey))
    /\ call.unit.auth = "ed25519"
    /\ call.unit.signature = sign_command(RunKey, WireA)
    /\ call.unit.command.s \in OneBitOff(WireA)
    /\ call.unit.command.s # WireA
    /\ call.ret_val = PyNone

\* C5: verify_command never raises; a non-mapping input, a wrong auth tag,
\* an absent public key, a missing, non-text, malformed or wrong-length
\* signature and a signature the library rejects all give unverified.
C5_VerifyNeverRaises ==
    call.op = "verify_command" =>
        /\ call.raised = ""
        /\ ~call.unit.isdict => call.ret_val = PyNone
        /\ ( /\ ~ExplicitlyDisabled
             /\ \/ call.unit.auth # "ed25519"
                \/ ~public_key.set
                \/ call.unit.signature.t # "str"
                \/ ~call.unit.signature.wf
                \/ call.unit.signature.bytes.len # 64
                \/ call.unit.signature.bytes.src # "sign"
                \/ call.unit.command.t = "int" )
           => call.ret_val = PyNone

\* a call whose try block raised TypeError (a non-text signature) and that
\* still returned unverified
C5_Witness ==
    /\ call.op = "verify_command"
    /\ verify_command_try(call.unit).raised = "TypeError"
    /\ call.raised = ""
    /\ call.ret_val = PyNone

\* C6: unless authentication is explicitly disabled, verify_command
\* returns unverified for every unit while no public key is configured, and
\* a body is returned only for a signature that verifies under the
\* configured key.
C6_FailClosedWithoutKey ==
    (call.op = "verify_command" /\ ~ExplicitlyDisabled) =>
        /\ ~public_key.set => call.raised = "" /\ call.ret_val = PyNone
        /\ call.ret_val # PyNone =>
              /\ public_key.set
              /\ call.unit.auth = "ed25519"
              /\ call.unit.signature.bytes =
                     Ed25519Sign(public_key.of, Utf8Encode(call.unit.command.s))

\* a correctly signed unit, refused because the key is not configured, in
\* a configuration object that lacks the enable_key_auth attribute
C6_Witness ==
    /\ call.op = "verify_command"
    /\ defense_config = ConfigWithoutAttr
    /\ ~public_key.set
    /\ call.unit = Unit(PyStr(WireA), "ed25519", sign_command(RunKey, WireA))
    /\ call.ret_val = PyNone

\* C7: with authentication explicitly disabled, verify_command returns the
\* text before the first '|' of the received command (all of it when there
\* is no '|'), whatever the signature, the auth tag and the public key are.
C7_DisabledAuthReturnsBody ==
    ( /\ call.op = "verify_command"
      /\ ExplicitlyDisabled
      /\ call.unit.isdict
      /\ call.unit.command.t # "int" )
    => LET text == call.unit.command.s
           body == call.ret_val.s
       IN  /\ call.raised = ""
           /\ call.ret_val.t = "str"
           /\ Len(body) <= Len(text)
           /\ body = SubSeq(text, 1, Len(body))
           /\ \A i \in DOMAIN body : body[i] # Bar
           /\ Len(body) < Len(text) => text[Len(body) + 1] = Bar

\* a unit with a foreign auth tag and random bytes for a signature, no key
\* configured, whose body is returned all the same
C7_Witness ==
    /\ call.op = "verify_command"
    /\ ExplicitlyDisabled
    /\ ~public_key.set
    /\ call.unit = Unit(PyStr(WireA), "hmac", SigHex(Urandom(16, 1)))
    /\ call.ret_val = PyStr(SplitFirst(WireA, Bar))
    /\ call.ret_val.s # WireA

\* ------------------------------------------------------------------------
\* Properties of the corruption channel (SpecChannel)
\* ------------------------------------------------------------------------
\* C9: corrupt_message with error_rate = 1.0 on a unit with a non-empty
\* command always returns a unit whose command differs from the input
\* command, the fallback substitution included.
C9_CorruptionAlwaysChangesCommand ==
    ( /\ call.op = "corrupt_message"
      /\ call.error_rate = 10000
      /\ call.unit.isdict
      /\ call.unit.command.t = "str"
      /\ call.unit.command.s # << >>
      /\ call.raised = "" )
    => call.ret_unit.command # call.unit.command

\* C10: corrupt_message returns a unit with the signature and auth tag of
\* its input, and leaves the caller's unit as it was.
C10_SignatureAuthAndInputUntouched ==
    call.op = "corrupt_message" =>
        /\ call.arg_after = call.unit
        /\ call.raised = "" =>
              /\ call.ret_unit.signature = call.unit.signature
              /\ call.ret_unit.auth = call.unit.auth
              /\ call.ret_unit.isdict = call.unit.isdict

\* a call that did corrupt the command of a signed unit
C10_Witness ==
    /\ call.op = "corrupt_message"
    /\ call.raised = ""
    /\ call.unit.signature = SigHex(Urandom(16, 1))
    /\ call.ret_unit.command # call.unit.command
    /\ call.ret_unit.signature = call.unit.signature
    /\ call.arg_after = call.unit

\* ------------------------------------------------------------------------
\* Properties of the run (Spec)
\* ------------------------------------------------------------------------
NoCompromisedKey == \A i \in DOMAIN scenarios : ~scenarios[i].has_compromised_key

\* what a vector holds when only the simulator's own commands of this step
\* were applied or dropped: zero, or the controller's value for the axis
OwnValues(outputs, i) == {FloatZero, FloatOfMicro(outputs[i])}

\* C1: in every step of a run with authentication enabled and no scenario
\* holding a compromised key, every command that writes into the thrust or
\* torque vector carries a wire string the simulator signed in that step,
\* and the vectors (and what the propagator is passed) hold nothing but
\* the values of those commands.
C1_OnlySignedCommandsActuate ==
    (~ExplicitlyDisabled /\ NoCompromisedKey) =>
        /\ \A w \in applied :
              /\ w.unit.command.s \in signed
              /\ w.unit.signature = sign_command(ed_privkey, w.unit.command.s)
        /\ \A i \in 1 .. 3 :
              /\ thrust_accel_actual[i] \in OwnValues(control.thrust_accel, i)
              /\ control_torque_actual[i] \in OwnValues(control.control_torque, i)
              /\ propagated.thrust[i] \in OwnValues(control.thrust_accel, i)
              /\ propagated.torque[i] \in OwnValues(control.control_torque, i)

\* a step under spoofing without the key: the batch grew by a forged unit,
\* which was refused last, and the simulator's own commands were applied
C1_Witness ==
    /\ pc = "update"
    /\ ~ExplicitlyDisabled
    /\ NoCompromisedKey
    /\ active_attack # 0
    /\ scenarios[active_attack].attack_type = "COMMAND_SPOOFING"
    /\ Len(commands) > 6
    /\ last.command_dict \in forged
    /\ ~Truthy(last.verified)
    /\ applied # {}
    /\ propagated.torque[1] # FloatZero

\* C3: a forged command made by CommandSpoofing (insert, replace or append),
\* delivered uncorrupted to verify_command with authentication enabled, is
\* verified if and only if the scenario has has_compromised_key = true.
C3_ForgedVerifiedIffKeyCompromised ==
    ( /\ last.valid
      /\ ~ExplicitlyDisabled
      /\ last.command_dict \in forged
      /\ ~last.corrupted )
    => (Truthy(last.verified) <=> scenarios[active_attack].has_compromised_key)

\* a forged unit that replaced a command of the batch and was verified,
\* the key being compromised
C3_Witness ==
    /\ last.valid
    /\ ~ExplicitlyDisabled
    /\ last.command_dict \in forged
    /\ ~last.corrupted
    /\ scenarios[active_attack].spoof_mode = "replace"
    /\ scenarios[active_attack].has_compromised_key
    /\ Truthy(last.verified)

\* the 6-character checksum of a wire string is the hash of its body
ChecksumOk(text) ==
    LET i == Find(text, Bar)
    IN  i >= 0 /\ Slice(text, i + 1, Len(text)) = Checksum6(Slice(text, 0, i))

\* C8 as stated: in every step a unit whose checksum is not the hash of
\* its body never contributes to the actuation vector, with authentication
\* enabled and with authentication disabled.
C8_BadChecksumNeverActuates ==
    \A w \in applied : ChecksumOk(w.unit.command.s)

\* C8, amended: verification checks the signature only; with authentication
\* enabled a unit whose checksum is not the hash of its body never
\* contributes to the actuation vector (the signed wire string includes
\* the checksum).
C8_BadChecksumNeverActuatesWhenAuthEnabled ==
    ~ExplicitlyDisabled => \A w \in applied : ChecksumOk(w.unit.command.s)

\* with authentication enabled, a torque command rewritten by
\* MaliciousDetumble (its checksum left stale) was received as sent and
\* refused, while other commands of the step were applied
C8_Witness ==
    /\ ~ExplicitlyDisabled
    /\ last.valid
    /\ ~last.corrupted
    /\ last.command_dict.command.t = "str"
    /\ ~ChecksumOk(last.command_dict.command.s)
    /\ ~Truthy(last.verified)
    /\ applied # {}

\* ------------------------------------------------------------------------
\* Properties of apply_attack (SpecAttack)
\* ------------------------------------------------------------------------
\* the number of forged commands: the integer part of len * intensity
\* (intensity in hundredths), 1 when that is 0 and the intensity is positive
ForgedCount(len, intensity) ==
    LET n == (len * intensity) \div 100
    IN  IF n = 0 /\ intensity > 0 THEN 1 ELSE n

\* the entries of seq at the positions idxs, in order
RECURSIVE Pick(_, _)
Pick(seq, idxs) ==
    IF idxs = {} THEN << >>
    ELSE LET m == CHOOSE i \in idxs : \A j \in idxs : i <= j
         IN  << seq[m] >> \o Pick(seq, idxs \ {m})

\* a spoofing scenario applied inside its window by a caller that passes the
\* signing key, with an intensity that is not negative
SpoofingCall ==
    /\ call.op = "apply_attack"
    /\ call.attack.attack_type = "COMMAND_SPOOFING"
    /\ InWindow(call.attack, call.t)
    /\ call.signer_private_key # NoKey
    /\ call.attack.intensity >= 0

\* C11: spoofing in insert mode returns all original commands in their
\* original relative order plus exactly N forged commands, N the integer
\* part of len * intensity or 1 when intensity > 0 and that part is 0
\* (N = 3 for intensity 0.5 over six commands).
C11_InsertKeepsOriginalsAddsN ==
    /\ NumToGenerate(Scenario("COMMAND_SPOOFING", 50, "insert", FALSE),
                     SimBatch(CHOOSE c \in ControlOutputs : TRUE)) = 3
    /\ (SpoofingCall /\ call.attack.spoof_mode = "insert") =>
         \A F \in {Forgeries(call.signer_private_key, call.attack)} :
           LET n   == ForgedCount(Len(call.commands), call.attack.intensity)
               out == call.ret_commands
           IN  /\ call.raised = ""
               /\ Len(out) = Len(call.commands) + n
               /\ \E P \in KSubsets(1 .. Len(out), n) :
                    /\ \A p \in P : out[p] \in F
                    /\ Pick(out, (1 .. Len(out)) \ P) = call.commands

\* two forged commands around the first of two original commands
C11_Witness ==
    /\ SpoofingCall
    /\ call.attack.spoof_mode = "insert"
    /\ call.attack.intensity = 100
    /\ Len(call.commands) = 2
    /\ Len(call.ret_commands) = 4
    /\ call.ret_commands[2] = call.commands[1]
    /\ call.ret_commands[4] = call.commands[2]

\* C12: spoofing in replace mode keeps the batch length and overwrites
\* exactly min(N, len) pairwise distinct positions with forged commands;
\* every other position holds the original command, and a count larger
\* than the batch is capped, not an error.
C12_ReplaceOverwritesMinNLen ==
    (SpoofingCall /\ call.attack.spoof_mode = "replace") =>
      \A F \in {Forgeries(call.signer_private_key, call.attack)} :
        LET n   == ForgedCount(Len(call.commands), call.attack.intensity)
            out == call.ret_commands
        IN  /\ call.raised = ""
            /\ Len(out) = Len(call.commands)
            /\ \E P \in KSubsets(1 .. Len(out), Min(n, Len(out))) :
                 /\ \A p \in P : out[p] \in F /\ out[p] # call.commands[p]
                 /\ \A q \in (1 .. Len(out)) \ P : out[q] = call.commands[q]

\* three forged commands requested for a batch of two: both are replaced
C12_Witness ==
    /\ SpoofingCall
    /\ call.attack.spoof_mode = "replace"
    /\ call.attack.intensity = 150
    /\ Len(call.commands) = 2
    /\ call.raised = ""
    /\ Len(call.ret_commands) = 2
    /\ call.ret_commands[1] # call.commands[1]
    /\ call.ret_commands[2] # call.commands[2]

\* C13: for every spoof_mode other than 'insert' and 'replace' the N forged
\* commands are appended: the result starts with the original batch in
\* order and ends with N forged commands.
C13_OtherModesAppend ==
    (SpoofingCall /\ call.attack.spoof_mode \notin {"insert", "replace"}) =>
      \A F \in {Forgeries(call.signer_private_key, call.attack)} :
        LET n   == ForgedCount(Len(call.commands), call.attack.intensity)
            len == Len(call.commands)
            out == call.ret_commands
        IN  /\ call.raised = ""
            /\ Len(out) = len + n
            /\ SubSeq(out, 1, len) = call.commands
            /\ \A p \in (len + 1) .. (len + n) : out[p] \in F

\* a mode that is not named 'append'
C13_Witness ==
    /\ SpoofingCall
    /\ call.attack.spoof_mode = "prepend"
    /\ call.attack.has_compromised_key
    /\ Len(call.commands) = 2
    /\ Len(call.ret_commands) = 4
    /\ SubSeq(call.ret_commands, 1, 2) = call.commands

\* intensity 0.5 over the six commands of a step: nine commands, the last
\* three forged
C13_SixCommandsWitness ==
    /\ SpoofingCall
    /\ call.attack.spoof_mode = "append"
    /\ call.attack.intensity = 50
    /\ Len(call.commands) = 6
    /\ Len(call.ret_commands) = 9

\* a scenario of the given kind applied inside its window, with an
\* intensity that is not negative
AttackCall(attack_type) ==
    /\ call.op = "apply_attack"
    /\ call.attack.attack_type = attack_type
    /\ InWindow(call.attack, call.t)
    /\ call.attack.intensity >= 0

\* C14: DenialOfService returns the error rate base_rate + 0.7 * intensity
\* and the input batch without its leading floor(len * intensity) commands,
\* the rest unchanged and in order; telemetry is returned unchanged.
\* Intensity 0.9 over ten commands leaves only the tenth and gives
\* base_rate + 0.63.
C14_DenialOfServiceDropsLeading ==
    AttackCall("DENIAL_OF_SERVICE") =>
        LET len  == Len(call.commands)
            drop == (len * call.attack.intensity) \div 100
        IN  /\ call.raised = ""
            /\ call.ret_error_rate = base_error_rate + 70 * call.attack.intensity
            /\ Len(call.ret_commands) = len - drop
            /\ \A j \in 1 .. (len - drop) : call.ret_commands[j] = call.commands[drop + j]
            /\ call.ret_telemetry = call.telemetry_data
            /\ (len = 10 /\ call.attack.intensity = 90) =>
                   /\ call.ret_commands = << call.commands[10] >>
                   /\ call.ret_error_rate = base_error_rate + 6300

\* intensity 0.9 over ten commands
C14_Witness ==
    /\ AttackCall("DENIAL_OF_SERVICE")
    /\ call.attack.intensity = 90
    /\ call.commands = TenBatch
    /\ call.ret_commands = << TenBatch[10] >>
    /\ call.ret_error_rate = 8300

\* ------------------------------------------------------------------------
\* Properties of the command loop (Spec)
\* ------------------------------------------------------------------------
\* the vector and the index that each of the six command kinds addresses
KindTargets ==
    {[kind |-> THRUST_X, vec |-> "thrust", idx |-> 0],
     [kind |-> THRUST_Y, vec |-> "thrust", idx |-> 1],
     [kind |-> THRUST_Z, vec |-> "thrust", idx |-> 2],
     [kind |-> RW_TORQUE_X, vec |-> "torque", idx |-> 0],
     [kind |-> RW_TORQUE_Y, vec |-> "torque", idx |-> 1],
     [kind |-> RW_TORQUE_Z, vec |-> "torque", idx |-> 2]}

\* the value of the write with the highest batch position among the writes
\* of this step to one axis; zero when there is none
LatestWrite(vec, idx) ==
    LET W == {w \in applied : w.vec = vec /\ w.idx = idx}
    IN  IF W = {} THEN FloatZero
        ELSE (CHOOSE w \in W : \A v \in W : v.pos <= w.pos).val

\* fields are the two fields "<kind>", "<number>" of a command body, and
\* the kind is that of target k
WellFormedFor(fields, k) ==
    /\ Len(fields) = 2
    /\ fields[1] = k.kind

\* C15: within one step the value on each thrust and torque axis is the
\* value of the last verified, parsable command for that axis in batch
\* order, and zero when there is none; values are never combined.
C15_LastWritePerAxisWins ==
    /\ \A i \in 0 .. 2 :
        /\ thrust_accel_actual[i + 1] = LatestWrite("thrust", i)
        /\ control_torque_actual[i + 1] = LatestWrite("torque", i)
    /\ \A w \in applied : \A v \in applied : w.pos = v.pos => w = v
    /\ \A w \in applied :
         \A fields \in {SplitAll(CommandBody(w.unit.command.s), Colon)} :
         \A k \in KindTargets :
            WellFormedFor(fields, k) =>
               \A val \in {ParseFloat(fields[2])} :
                  val.t # "ValueError" =>
                     /\ w.vec = k.vec
                     /\ w.idx = k.idx
                     /\ w.val = val
    /\ (pc = "process" /\ last.valid /\ Truthy(last.verified)) =>
         \A fields \in {SplitAll(last.verified.s, Colon)} :
         \A k \in KindTargets :
            WellFormedFor(fields, k) =>
               \A val \in {ParseFloat(fields[2])} :
                  val.t # "ValueError" =>
                     /\ \E w \in applied :
                          w.pos = cmd_index - 1 /\ w.vec = k.vec /\ w.idx = k.idx
                     /\ (IF k.vec = "thrust" THEN thrust_accel_actual
                         ELSE control_torque_actual)[k.idx + 1] = val
    /\ pc \in {"update", "done"} =>
         propagated = [thrust |-> thrust_accel_actual, torque |-> control_torque_actual]

\* two verified commands with different values wrote to one axis; the axis
\* holds the value of the later one
C15_Witness ==
    /\ pc = "update"
    /\ \E w \in applied : \E v \in applied :
         /\ w.vec = "thrust" /\ v.vec = "thrust"
         /\ w.idx = v.idx
         /\ w.pos < v.pos
         /\ w.val # v.val
         /\ w.val # FloatZero
         /\ thrust_accel_actual[v.idx + 1] = v.val
         /\ propagated.thrust[v.idx + 1] = v.val

IsScaled(y, x, num, den) == y.n * x.d * den = x.n * num * y.d

\* C17: TelemetryFalsification returns a snapshot with battery_soc
\* multiplied by 1 + 0.5 * intensity and altitude by 1 + 0.1 * intensity
\* when present; every other key, the batch and the error rate are
\* unchanged, and the state the simulator keeps is not altered.
C17_TelemetryFalsificationScalesReport ==
    AttackCall("TELEMETRY_FALSIFICATION") =>
        LET i    == call.attack.intensity
            tin  == call.telemetry_data
            tout == call.ret_telemetry
        IN  /\ call.raised = ""
            /\ tout.has_battery_soc = tin.has_battery_soc
            /\ tout.has_altitude = tin.has_altitude
            /\ IF tin.has_battery_soc
               THEN IsScaled(tout.battery_soc, tin.battery_soc, 200 + i, 200)
               ELSE tout.battery_soc = tin.battery_soc
            /\ IF tin.has_altitude
               THEN IsScaled(tout.altitude, tin.altitude, 1000 + i, 1000)
               ELSE tout.altitude = tin.altitude
            /\ tout.has_power_consumption = tin.has_power_consumption
            /\ tout.power_consumption = tin.power_consumption
            /\ call.ret_commands = call.commands
            /\ call.commands_after = call.commands
            /\ call.ret_error_rate = base_error_rate
            /\ power_consumption = Fraction(power_draw_baseline, 1)
            /\ telemetry_for_attack = FullTelemetry

\* 80 % and 1000 km reported as 100 % and 1050 km at intensity 0.5
C17_Witness ==
    /\ AttackCall("TELEMETRY_FALSIFICATION")
    /\ call.attack.intensity = 50
    /\ call.telemetry_data = FullTelemetry
    /\ call.ret_telemetry.battery_soc = Fraction(100, 1)
    /\ call.ret_telemetry.altitude = Fraction(1050, 1)
    /\ call.ret_telemetry.power_consumption = Fraction(power_draw_baseline, 1)

\* in a run (Spec), a step under TelemetryFalsification processes the batch
\* the simulator signed at the base error rate, hands the nominal draw to
\* the power model and reports the scaled readings
C17_RunStateNotAltered ==
    (active_attack # 0 /\ pc \in {"process", "update", "loop", "done"}
     /\ scenarios[IF active_attack = 0 THEN 1 ELSE active_attack].attack_type
        = "TELEMETRY_FALSIFICATION") =>
        /\ {commands[j].command.s : j \in DOMAIN commands} = signed
        /\ error_rate = sim_config.base_error_rate
        /\ pc \in {"loop", "done"} =>
             /\ power_consumption \in
                  {Fraction(power_draw_baseline + l + u, 1) :
                      l \in {0, LinkDraw}, u \in {0, SunDraw}}
             /\ IsScaled(published.battery_soc, TrueBatterySoc,
                         200 + scenarios[active_attack].intensity, 200)
             /\ IsScaled(published.altitude, TrueAltitude,
                         1000 + scenarios[active_attack].intensity, 1000)

\* two floats are the same number (0.0 and -0.0 are)
NumEq(a, b) ==
    /\ a.t = "num"
    /\ b.t = "num"
    /\ (a.m = 0 /\ b.m = 0) \/ a = b

\* the number between the first ':' and the '|' of a command text
CommandValue(text) == ParseFloat(SplitFirst(SplitAll(text, Colon)[2], Bar))

\* a unit whose command names a wheel-torque kind and carries a number
IsTorqueCommand(u) ==
    /\ u.isdict
    /\ u.command.t = "str"
    /\ Contains(u.command.s, RW_TORQUE)
    /\ Len(SplitAll(u.command.s, Colon)) >= 2
    /\ CommandValue(u.command.s).t = "num"

\* C18: MaliciousDetumble replaces the value v of every wheel-torque
\* command by -1.5 * v, for every value the codec emits (values below 1e-4
\* and zero included); thrust commands, batch length, order and every
\* signature stay as they were, so an altered command fails verification
\* when authentication is enabled.
C18_DetumbleScalesEveryTorque ==
    AttackCall("MALICIOUS_DETUMBLE") =>
        /\ call.raised = ""
        /\ Len(call.ret_commands) = Len(call.commands)
        /\ \A j \in DOMAIN call.commands :
            LET u == call.commands[j]
                v == call.ret_commands[j]
            IN  /\ v.signature = u.signature
                /\ v.auth = u.auth
                /\ IF IsTorqueCommand(u)
                   THEN /\ v.command.t = "str"
                        /\ NumEq(CommandValue(v.command.s),
                                 NegTimes15(CommandValue(u.command.s)))
                        /\ (~ExplicitlyDisabled /\ v # u) =>
                               ~Truthy(verify_command(v).v)
                   ELSE v = u

\* |x| < 1e-4 and x # 0: str(x) is written with an exponent
ReprHasExponent(x) ==
    /\ x.t = "num"
    /\ x.m # 0
    /\ x.e + Len(IntToStr(x.m)) - 1 < -4

\* What the code does for wheel-torque commands: a value whose str() has an
\* exponent is left as it was (unit unchanged); every other value is
\* replaced by -1.5 times itself and the unit then fails verification.
C18_DetumbleSkipsSmallTorque ==
    AttackCall("MALICIOUS_DETUMBLE") =>
        /\ call.raised = ""
        /\ Len(call.ret_commands) = Len(call.commands)
        /\ \A j \in DOMAIN call.commands :
            LET u == call.commands[j]
                v == call.ret_commands[j]
            IN  /\ v.signature = u.signature
                /\ v.auth = u.auth
                /\ IF ~IsTorqueCommand(u) THEN v = u
                   ELSE IF ReprHasExponent(CommandValue(u.command.s)) THEN v = u
                   ELSE /\ v.command.t = "str"
                        /\ NumEq(CommandValue(v.command.s),
                                 NegTimes15(CommandValue(u.command.s)))
                        /\ (~ExplicitlyDisabled /\ v # u) =>
                               ~Truthy(verify_command(v).v)

\* a wheel-torque command below 1e-4 came back unchanged
C18_SmallTorqueUnchanged ==
    /\ AttackCall("MALICIOUS_DETUMBLE")
    /\ \E j \in DOMAIN call.commands :
        /\ IsTorqueCommand(call.commands[j])
        /\ ReprHasExponent(CommandValue(call.commands[j].command.s))
        /\ call.ret_commands[j] = call.commands[j]

\* C19: OrbitManipulation returns the input batch unchanged, followed by
\* exactly floor(3 * intensity) forged commands, each "THRUST_Z:-0.005000"
\* with the checksum of that body and 16 random bytes as signature; with
\* authentication enabled no appended command is verified.  Telemetry and
\* the error rate come back as given.
C19_OrbitManipulationAppendsForged ==
    AttackCall("ORBIT_MANIPULATION") =>
        \E n \in {(3 * call.attack.intensity) \div 100} :
            /\ call.raised = ""
            /\ Len(call.ret_commands) = Len(call.commands) + n
            /\ SubSeq(call.ret_commands, 1, Len(call.commands)) = call.commands
            /\ call.ret_telemetry = call.telemetry_data
            /\ call.ret_error_rate = base_error_rate
            /\ \A j \in (Len(call.commands) + 1) .. Len(call.ret_commands) :
                \E u \in {call.ret_commands[j]} :
                    /\ u.isdict
                    /\ u.auth = "ed25519"
                    /\ u.command.t = "str"
                    /\ ChecksumOk(u.command.s)
                    /\ SplitFirst(u.command.s, Bar)
                           = THRUST_Z \o << Colon, Minus, Zero, Dot,
                                            Zero, Zero, 53, Zero, Zero, Zero >>
                    /\ u.signature = SigHex(Urandom(16, 1))
                    /\ ~ExplicitlyDisabled => ~Truthy(verify_command(u).v)

\* an attack that appended at least two commands to a non-empty batch, with
\* authentication enabled
C19_Witness ==
    /\ AttackCall("ORBIT_MANIPULATION")
    /\ ~ExplicitlyDisabled
    /\ call.commands # << >>
    /\ Len(call.ret_commands) >= Len(call.commands) + 2

\* In a run with authentication enabled, no command carrying the random
\* signature of OrbitManipulation is ever written to an actuation vector.
C19_RunNeverAppliesAppended ==
    ~ExplicitlyDisabled =>
        \A a \in applied : a.unit.signature # SigHex(Urandom(16, 1))

\* a run step under OrbitManipulation whose whole batch, the appended
\* commands included, has been processed
C19_RunWitness ==
    /\ pc = "update"
    /\ active_attack > 0
    /\ scenarios[active_attack].attack_type = "ORBIT_MANIPULATION"
    /\ ~ExplicitlyDisabled
    /\ Len(commands) > Len(base_cmds(control.thrust_accel, control.control_torque))

\* C20: BatteryDepletion returns a snapshot whose power_consumption is the
\* input power_consumption multiplied by 1 + 2 * intensity (a snapshot
\* without the key is read as 50); the other telemetry keys, the command
\* batch and the error rate are unchanged.
C20_BatteryDepletionScalesConsumption ==
    AttackCall("BATTERY_DEPLETION") =>
        LET i    == call.attack.intensity
            tin  == call.telemetry_data
            tout == call.ret_telemetry
        IN  /\ call.raised = ""
            /\ tout.has_power_consumption
            /\ IF tin.has_power_consumption
               THEN IsScaled(tout.power_consumption, tin.power_consumption,
                             100 + 2 * i, 100)
               ELSE IsScaled(tout.power_consumption, Fraction(50, 1),
                             100 + 2 * i, 100)
            /\ tout.has_battery_soc = tin.has_battery_soc
            /\ tout.battery_soc = tin.battery_soc
            /\ tout.has_altitude = tin.has_altitude
            /\ tout.altitude = tin.altitude
            /\ call.ret_commands = call.commands
            /\ call.commands_after = call.commands
            /\ call.ret_error_rate = base_error_rate

\* the nominal draw reported 2.6 times as large at intensity 0.8, state of
\* charge and altitude as given
C20_Witness ==
    /\ AttackCall("BATTERY_DEPLETION")
    /\ call.attack.intensity = 80
    /\ call.telemetry_data = FullTelemetry
    /\ call.commands # << >>
    /\ call.ret_telemetry.power_consumption = Fraction(power_draw_baseline * 26, 10)
    /\ call.ret_telemetry.power_consumption # call.telemetry_data.power_consumption
    /\ call.ret_telemetry.battery_soc = TrueBatterySoc
    /\ call.ret_telemetry.altitude = TrueAltitude

\* ------------------------------------------------------------------------
\* Properties of the run: keys, windows, stage order
\* ------------------------------------------------------------------------
\* C21: in every state of the run the verifier's public key is set and is
\* the public half of the private key generated at construction, and no
\* step (signing, attack, corruption, verification, update) changes either
\* half of the pair.
C21_KeyPairNeverChanges ==
    /\ [](/\ ed_privkey = RunKey
          /\ public_key = [set |-> TRUE, of |-> ed_privkey])
    /\ [][public_key' = public_key /\ ed_privkey' = ed_privkey]_vars

\* a finished run in which a key-compromise forgery was verified with the
\* key pair
C21_Witness ==
    /\ pc = "done"
    /\ step = sim_config.time_steps
    /\ step > 0
    /\ public_key = [set |-> TRUE, of |-> RunKey]
    /\ \E a \in applied : a.unit.signature \notin
           {SigHex(Ed25519Sign(RunKey, w)) : w \in signed}

\* the call returned what it was given, with the base error rate
ReturnedUnchanged ==
    /\ call.raised = ""
    /\ call.ret_commands = call.commands
    /\ call.ret_telemetry = call.telemetry_data
    /\ call.ret_error_rate = base_error_rate

\* C25: apply_attack transforms its inputs only for a time in the
\* half-open window [start_time, start_time + duration); for every other
\* time, t = start_time + duration included, it returns the commands and
\* the telemetry unchanged together with the base error rate.
C25_UnchangedOutsideHalfOpenWindow ==
    (call.op = "apply_attack" /\ ~InWindow(call.attack, call.t)) =>
        ReturnedUnchanged

\* What the code does: the early return is taken for t < start_time and for
\* t > start_time + duration, so the window of apply_attack is closed.
C25_UnchangedOutsideClosedWindow ==
    (call.op = "apply_attack" /\ OutsideWindow(call.attack, call.t)) =>
        ReturnedUnchanged

\* a call at t = start_time + duration exactly that transformed its inputs
C25_AppliedAtWindowEnd ==
    /\ call.op = "apply_attack"
    /\ call.t = call.attack.start_time + call.attack.duration
    /\ call.attack.duration > 0
    /\ ~ReturnedUnchanged

\* a CommandSpoofing scenario applied with a signer key at a time the early
\* return of apply_attack does not take
SpooferRan ==
    /\ call.op = "apply_attack"
    /\ call.attack.attack_type = "COMMAND_SPOOFING"
    /\ ~OutsideWindow(call.attack, call.t)
    /\ call.signer_private_key # NoKey

\* C26: CommandSpoofing with degenerate parameters never raises: in every
\* spoof mode, for an intensity that is zero or negative or for an empty
\* batch, the call returns a batch, and for an intensity <= 0 that batch
\* holds no forged command (it is the input batch).
C26_DegenerateSpoofNeverRaises ==
    (SpooferRan /\ (call.attack.intensity <= 0 \/ call.commands = << >>)) =>
        /\ call.raised = ""
        /\ call.attack.intensity <= 0 => call.ret_commands = call.commands

\* What the code does: only replace mode with a negative count of forgeries
\* raises (ValueError from random.sample); every other degenerate call
\* returns as the claim says.
C26_OnlyNegativeReplaceRaises ==
    (SpooferRan /\ (call.attack.intensity <= 0 \/ call.commands = << >>)) =>
        IF /\ call.attack.spoof_mode = "replace"
           /\ NumToGenerate(call.attack, call.commands) < 0
        THEN call.raised = "ValueError"
        ELSE /\ call.raised = ""
             /\ call.attack.intensity <= 0 => call.ret_commands = call.commands

\* replace mode at intensity -0.5 over a batch of two or more raised
C26_NegativeReplaceRaised ==
    /\ SpooferRan
    /\ call.attack.spoof_mode = "replace"
    /\ call.attack.intensity < 0
    /\ Len(call.commands) >= 2
    /\ call.raised = "ValueError"

\* the degenerate calls that return: an empty batch at a positive intensity
\* in replace mode, and a negative intensity in insert mode
C26_DegenerateReturned ==
    /\ SpooferRan
    /\ call.raised = ""
    /\ \/ call.commands = << >> /\ call.attack.intensity > 0
          /\ call.attack.spoof_mode = "replace" /\ call.ret_commands = << >>
       \/ call.commands # << >> /\ call.attack.intensity < 0
          /\ call.attack.spoof_mode = "insert"

\* a CommandSpoofing scenario without key compromise, applied without a
\* signer key at a time the early return of apply_attack does not take
SpoofWithoutKey ==
    /\ call.op = "apply_attack"
    /\ call.attack.attack_type = "COMMAND_SPOOFING"
    /\ ~OutsideWindow(call.attack, call.t)
    /\ ~call.attack.has_compromised_key
    /\ call.signer_private_key = NoKey

\* C27: the signer key of apply_attack is optional: CommandSpoofing with
\* has_compromised_key = false, applied without a signer key, does not
\* fail and returns a batch whose forged commands carry random signatures.
C27_SpoofingWithoutSignerKeyReturns ==
    SpoofWithoutKey =>
        /\ call.raised = ""
        /\ call.attack.intensity > 0 =>
               \E j \in DOMAIN call.ret_commands :
                   call.ret_commands[j].signature = SigHex(Urandom(16, 1))

\* What the code does: the spoofer's constructor asks the key for its
\* public half before anything else, so every such call raises
\* AttributeError, whatever the mode, the intensity and the batch.
C27_SpoofingWithoutSignerKeyRaises ==
    SpoofWithoutKey => call.raised = "AttributeError"

\* such a call, at a positive intensity over a non-empty batch
C27_RaisedWithoutKey ==
    /\ SpoofWithoutKey
    /\ call.attack.intensity > 0
    /\ call.commands # << >>
    /\ call.raised = "AttributeError"

\* the batch the simulator signs from the controller outputs of the step
SignedBatch ==
    [i \in 1 .. 6 |->
        SignedUnit(ed_privkey,
                   base_cmds(control.thrust_accel, control.control_torque)[i])]

\* where each stage finds the step: before the attack the batch is the one
\* just signed and nothing is written; during the command loop every write
\* made so far comes from a different, already processed position of the
\* post-attack batch, from the unit as it left the channel, and that unit is
\* verified; the propagators have not run before the loop ends and have run
\* on the final vectors after it
StageInvariant ==
    /\ pc = "attack" =>
          /\ commands = SignedBatch
          /\ applied = {}
          /\ propagated = NoActuation
    /\ pc = "process" =>
          /\ cmd_index \in 1 .. (Len(commands) + 1)
          /\ propagated = NoActuation
    /\ pc \in {"process", "update"} =>
          /\ \A a \in applied :
                /\ a.pos \in 1 .. (cmd_index - 1)
                /\ a.pos <= Len(commands)
                /\ a.unit.signature = commands[a.pos].signature
                /\ a.unit.auth = commands[a.pos].auth
                /\ \E verified \in {verify_command(a.unit)} :
                      /\ Truthy(verified.v)
                      /\ CommandWrite(verified.v.s)
                            = [vec |-> a.vec, idx |-> a.idx, val |-> a.val]
          /\ \A a, b \in applied : a.pos = b.pos => a = b
    /\ pc = "update" =>
          /\ cmd_index = Len(commands) + 1
          /\ propagated = [thrust |-> thrust_accel_actual,
                           torque |-> control_torque_actual]

\* what one stage may do: sign, then attack, then one command after the
\* other through channel, verifier and actuation vector, then propagate,
\* then update and go to the next step
StageStep ==
    /\ pc = "loop" =>
          /\ pc' = "attack"
          /\ step' = step
          /\ applied' = {}
          /\ propagated' = NoActuation
    /\ pc = "attack" =>
          /\ pc' \in {"process", "raised"}
          /\ step' = step
          /\ cmd_index' = 1
          /\ applied' = applied
          /\ propagated' = propagated
    /\ pc = "process" =>
          /\ step' = step
          /\ commands' = commands
          /\ \/ /\ pc' = "process"
                /\ cmd_index <= Len(commands)
                /\ cmd_index' = cmd_index + 1
                /\ last'.command_dict = commands[cmd_index]
                /\ \A a \in applied' \ applied : a.pos = cmd_index
                /\ applied \subseteq applied'
                /\ propagated' = propagated
             \/ /\ pc' = "update"
                /\ cmd_index = Len(commands) + 1
                /\ cmd_index' = cmd_index
                /\ applied' = applied
                /\ thrust_accel_actual' = thrust_accel_actual
                /\ control_torque_actual' = control_torque_actual
             \/ /\ pc' = "raised"
                /\ applied' = applied
                /\ propagated' = propagated
    /\ pc = "update" =>
          /\ pc' \in {"loop", "done"}
          /\ step' = step + 1
          /\ commands' = commands
          /\ applied' = applied
          /\ propagated' = propagated
    /\ pc \notin {"done", "raised"}

\* C28: in every step the stages run in the order sign, attack, corrupt,
\* verify, apply, propagate: each command of the post-attack batch goes
\* through corrupt_message and then verify_command exactly once before it
\* may write to an actuation vector, the propagators run once after the
\* last command of the step, and no command of a step is processed in a
\* later step.
C28_StagesRunInOrder == [] StageInvariant /\ [][StageStep]_vars

\* the end of the second step of a run under attack: the whole post-attack
\* batch was processed, a forged and an original command wrote, and the
\* propagators ran
C28_Witness ==
    /\ pc = "update"
    /\ step = 1
    /\ active_attack # 0
    /\ Len(commands) > 6
    /\ Cardinality(applied) >= 2
    /\ propagated # NoActuation

\* C29: apply_attack never modifies what the caller passed in and changes
\* only what its attack kind names: after the call the caller's command
\* list, the units in it and the telemetry mapping are as they were; the
\* returned error rate differs from the base rate only for DenialOfService
\* and the returned telemetry differs from the input only for
\* TelemetryFalsification and BatteryDepletion.
C29_CallerInputsUntouched ==
    call.op = "apply_attack" =>
        /\ call.commands_after = call.commands
        /\ call.telemetry_after = call.telemetry_data
        /\ call.raised = "" =>
              /\ call.ret_error_rate # base_error_rate =>
                     call.attack.attack_type = "DENIAL_OF_SERVICE"
              /\ call.ret_telemetry # call.telemetry_data =>
                     call.attack.attack_type \in
                         {"TELEMETRY_FALSIFICATION", "BATTERY_DEPLETION"}

\* What the code does: only MaliciousDetumble writes into the caller's
\* units (each rewritten wheel-torque command is rewritten in the caller's
\* list too); every other kind leaves the inputs alone, and the frame of
\* error rate and telemetry is as the claim says.
C29_OnlyDetumbleWritesIntoCallerUnits ==
    call.op = "apply_attack" =>
        /\ call.commands_after =
              (IF call.attack.attack_type = "MALICIOUS_DETUMBLE"
               THEN call.ret_commands ELSE call.commands)
        /\ call.telemetry_after = call.telemetry_data
        /\ call.raised = "" =>
              /\ call.ret_error_rate # base_error_rate =>
                     call.attack.attack_type = "DENIAL_OF_SERVICE"
              /\ call.ret_telemetry # call.telemetry_data =>
                     call.attack.attack_type \in
                         {"TELEMETRY_FALSIFICATION", "BATTERY_DEPLETION"}

\* a MaliciousDetumble call after which a unit of the caller's list holds
\* the rewritten command
C29_CallerUnitRewritten ==
    /\ AttackCall("MALICIOUS_DETUMBLE")
    /\ call.commands_after # call.commands
    /\ Len(call.commands_after) = Len(call.commands)
    /\ call.commands_after = call.ret_commands

\* the step just updated ran under BatteryDepletion
DepletionStepDone ==
    /\ pc \in {"loop", "done"}
    /\ step >= 1
    /\ active_attack # 0
    /\ scenarios[active_attack].attack_type = "BATTERY_DEPLETION"

\* x * (num / den) ^ k
RECURSIVE TimesPow(_, _, _, _)
TimesPow(x, num, den, k) ==
    IF k = 0 THEN x ELSE TimesPow(Times(x, num, den), num, den, k - 1)

\* C30: during a BatteryDepletion window the consumption handed to the
\* power model at a step is the baseline consumption of that step (baseline
\* draw plus link and sunlight increments) scaled once by 1 + 2 * intensity,
\* however many steps the attack has been active.
C30_DepletionScalesStepBaselineOnce ==
    DepletionStepDone =>
        \E env \in EnvStates :
            power_consumption =
                Times(Fraction(power_draw_baseline
                               + (IF env.link_active THEN LinkDraw ELSE 0)
                               + (IF ~env.in_eclipse THEN SunDraw ELSE 0), 1),
                      100 + 2 * scenarios[active_attack].intensity, 100)

\* What the code does: the snapshot given to the attack holds the
\* consumption stored by the previous step, so the k-th step of a window
\* that starts with the run hands the power model the initial draw times
\* (1 + 2 * intensity) ^ k, whatever the link and the sunlight are.
C30_DepletionCompounds ==
    (DepletionStepDone /\ scenarios[active_attack].start_time = 0) =>
        power_consumption =
            TimesPow(Fraction(power_draw_baseline, 1),
                     100 + 2 * scenarios[active_attack].intensity, 100, step)

\* after the second step under BatteryDepletion at intensity 0.8 the power
\* model was handed 150 * 2.6 * 2.6 = 1014 W
C30_ScaledTwice ==
    /\ DepletionStepDone
    /\ step = 2
    /\ power_consumption = Fraction(1014, 1)


\* ------------------------------------------------------------------------
\* numpy float64 arithmetic of the physics engine and the controller
\*
\* The decimal numbers above, with the special values of IEEE 754: NaN,
\* the two infinities and the two zeros.  A result is cut to FloatDigits
\* significant digits, overflows to an infinity above 10^308 and
\* underflows to a zero below 10^-324, as a double does at 17 digits; the
\* last digit kept is rounded on the first digit dropped.
\* ------------------------------------------------------------------------
FloatDigits == 3

\* every float, and every array of floats; an operator below takes its
\* arguments by value, x and y standing for them
Floats == [t : {"num", "nan", "inf"}, neg : BOOLEAN, m : Nat, e : Int]

Arrays == Seq(Floats)

IsNan(x) == x.t = "nan"

IsInf(x) == x.t = "inf"

IsZero(x) == x.t = "num" /\ x.m = 0

\* m * 10^e as a float
F(m, e) == Normalize(FALSE, m, e)

RECURSIVE Round(_, _, _)
Round(neg, m, e) ==
    IF m = 0 THEN Normalize(neg, 0, 0)
    ELSE IF NumDigits(m) > FloatDigits + 1 THEN Round(neg, m \div 10, e + 1)
    ELSE IF NumDigits(m) = FloatDigits + 1 THEN Round(neg, (m + 5) \div 10, e + 1)
    ELSE IF e + NumDigits(m) - 1 > 308 THEN FloatInf(neg)
    ELSE IF e + NumDigits(m) - 1 < -324 THEN Normalize(neg, 0, 0)
    ELSE Normalize(neg, m, e)

FNeg(a) == [x \in Floats |-> IF IsNan(x) THEN x ELSE [x EXCEPT !.neg = ~ x.neg]][a]

FAbs(a) == [x \in Floats |-> IF IsNan(x) THEN x ELSE [x EXCEPT !.neg = FALSE]][a]

FMul(a, b) ==
    [x \in Floats, y \in Floats |->
        IF IsNan(x) \/ IsNan(y) THEN FloatNan
        ELSE IF (IsInf(x) /\ IsZero(y)) \/ (IsZero(x) /\ IsInf(y)) THEN FloatNan
        ELSE IF IsInf(x) \/ IsInf(y) THEN FloatInf(x.neg # y.neg)
        ELSE Round(x.neg # y.neg, x.m * y.m, x.e + y.e)][a, b]

FDiv(a, b) ==
    [x \in Floats, y \in Floats |->
        IF IsNan(x) \/ IsNan(y) THEN FloatNan
        ELSE IF (IsInf(x) /\ IsInf(y)) \/ (IsZero(x) /\ IsZero(y)) THEN FloatNan
        ELSE IF IsInf(x) \/ IsZero(y) THEN FloatInf(x.neg # y.neg)
        ELSE IF IsInf(y) THEN Normalize(x.neg # y.neg, 0, 0)
        ELSE LET k == 2 * FloatDigits + 1 - NumDigits(x.m)
             IN  Round(x.neg # y.neg, (x.m * Pow(10, k)) \div y.m, x.e - y.e - k)][a, b]

\* the sum of two finite numbers: the smaller exponent is brought within
\* FloatDigits + 1 places of the larger, the digits below are lost
AddFinite(a, b) ==
    LET hi == IF a.e >= b.e THEN a ELSE b
        lo == IF a.e >= b.e THEN b ELSE a
        gap == hi.e - lo.e
        cut == IF gap > FloatDigits + 1 THEN gap - (FloatDigits + 1) ELSE 0
        lom == IF cut > FloatDigits THEN 0 ELSE lo.m \div Pow(10, cut)
        e == lo.e + cut
        s == (IF hi.neg THEN -1 ELSE 1) * hi.m * Pow(10, gap - cut)
             + (IF lo.neg THEN -1 ELSE 1) * lom
    IN  IF s = 0 THEN Normalize(a.neg /\ b.neg, 0, 0)
        ELSE IF s < 0 THEN Round(TRUE, -s, e)
        ELSE Round(FALSE, s, e)

FAdd(a, b) ==
    [x \in Floats, y \in Floats |->
        IF IsNan(x) \/ IsNan(y) THEN FloatNan
        ELSE IF IsInf(x) /\ IsInf(y) THEN IF x.neg = y.neg THEN x ELSE FloatNan
        ELSE IF IsInf(x) THEN x
        ELSE IF IsInf(y) THEN y
        ELSE IF IsZero(x) /\ IsZero(y) THEN Normalize(x.neg /\ y.neg, 0, 0)
        ELSE IF IsZero(x) THEN y
        ELSE IF IsZero(y) THEN x
        ELSE AddFinite(x, y)][a, b]

FSub(a, b) == FAdd(a, FNeg(b))

\* a < b; every comparison with NaN is false
FLess(a, b) ==
    [d \in Floats |-> ~ IsNan(d) /\ ~ IsZero(d) /\ d.neg][FSub(a, b)]

FGreater(a, b) == FLess(b, a)

\* the largest r in lo..hi with r * r <= n
RECURSIVE ISqrt(_, _, _)
ISqrt(n, lo, hi) ==
    IF lo >= hi THEN lo
    ELSE LET mid == (lo + hi + 1) \div 2
         IN  IF mid * mid <= n THEN ISqrt(n, mid, hi) ELSE ISqrt(n, lo, mid - 1)

\* the integer nearest to the square root of n
NearestSqrt(n) ==
    [r \in Nat |-> IF (r + 1) * (r + 1) - n <= n - r * r THEN r + 1 ELSE r]
        [ISqrt(n, 0, 4 * Pow(10, FloatDigits))]

FSqrt(a) ==
    [x \in Floats |->
        IF IsNan(x) THEN FloatNan
        ELSE IF IsZero(x) THEN x
        ELSE IF x.neg THEN FloatNan
        ELSE IF IsInf(x) THEN x
        ELSE LET k0 == 2 * FloatDigits - NumDigits(x.m)
                 k == IF (x.e - k0) % 2 = 0 THEN k0 ELSE k0 + 1
             IN  Round(FALSE, NearestSqrt(x.m * Pow(10, k)), (x.e - k) \div 2)][a]

\* np.clip(x, -1.0, 1.0): NaN stays NaN
Clip(a) ==
    [x \in Floats |->
        IF IsNan(x) THEN x
        ELSE IF FLess(x, FNeg(F(1, 0))) THEN FNeg(F(1, 0))
        ELSE IF FGreater(x, F(1, 0)) THEN F(1, 0)
        ELSE x][a]

\* ---- arrays of three floats ----
VAdd(a, b) ==
    [u \in Arrays, v \in Arrays |->
        << FAdd(u[1], v[1]), FAdd(u[2], v[2]), FAdd(u[3], v[3]) >>][a, b]

VSub(a, b) ==
    [u \in Arrays, v \in Arrays |->
        << FSub(u[1], v[1]), FSub(u[2], v[2]), FSub(u[3], v[3]) >>][a, b]

VMul(a, b) ==
    [u \in Arrays, v \in Arrays |->
        << FMul(u[1], v[1]), FMul(u[2], v[2]), FMul(u[3], v[3]) >>][a, b]

VDiv(a, b) ==
    [u \in Arrays, v \in Arrays |->
        << FDiv(u[1], v[1]), FDiv(u[2], v[2]), FDiv(u[3], v[3]) >>][a, b]

\* array * scalar and array / scalar
Scale(a, b) ==
    [v \in Arrays, s \in Floats |->
        << FMul(v[1], s), FMul(v[2], s), FMul(v[3], s) >>][a, b]

Over(a, b) ==
    [v \in Arrays, s \in Floats |->
        << FDiv(v[1], s), FDiv(v[2], s), FDiv(v[3], s) >>][a, b]

\* -quaternion
Negated(a) ==
    [v \in Arrays |-> << FNeg(v[1]), FNeg(v[2]), FNeg(v[3]), FNeg(v[4]) >>][a]

\* quaternion / scalar
Over4(a, b) ==
    [v \in Arrays, s \in Floats |->
        << FDiv(v[1], s), FDiv(v[2], s), FDiv(v[3], s), FDiv(v[4], s) >>][a, b]

AnyNan(v) == \E i \in DOMAIN v : IsNan(v[i])

AnyInf(v) == \E i \in DOMAIN v : IsInf(v[i])

RECURSIVE SumSquares(_, _)
SumSquares(v, i) ==
    IF i > Len(v) THEN F(0, 0)
    ELSE FAdd(FMul(v[i], v[i]), SumSquares(v, i + 1))

\* np.linalg.norm: the square root of the sum of the squares
Norm(a) == FSqrt([v \in Arrays |-> SumSquares(v, 1)][a])

\* np.cross
Cross(a, b) ==
    [u \in Arrays, v \in Arrays |->
        << FSub(FMul(u[2], v[3]), FMul(u[3], v[2])),
           FSub(FMul(u[3], v[1]), FMul(u[1], v[3])),
           FSub(FMul(u[1], v[2]), FMul(u[2], v[1])) >>][a, b]

\* ------------------------------------------------------------------------
\* PhysicsEngine: attitude propagation
\*
\* A quaternion is an array of four floats.  The product of the rotation
\* of one step with the orientation is not computed digit by digit: kind
\* "rotated" stands for dq * q with a unit dq, it has the norm of q, and
\* kind "unit" for that product divided by its norm.
\* ------------------------------------------------------------------------
\* SatelliteConfig.moment_of_inertia and reaction_wheel_max_momentum
moment_of_inertia == << F(10, 0), F(10, 0), F(15, 0) >>

reaction_wheel_max_momentum == F(10, 0)

\* PhysicalConstants.EARTH_MU
EARTH_MU == Round(FALSE, 398600441, -3)

Quaternions == [k : {"array", "rotated", "unit"}, c : Arrays]

Array(c) == [k |-> "array", c |-> c]

IdentityQuaternion == Array(<< F(1, 0), F(0, 0), F(0, 0), F(0, 0) >>)

AttitudeState(q, w, h) ==
    [quaternion |-> q, angular_velocity |-> w, reaction_wheel_momentum |-> h]

\* the state the safety checks of propagate_attitude return
ResetState == AttitudeState(IdentityQuaternion, Zeros3, Zeros3)

\* np.any(np.isnan(q))
QuaternionHasNan(q) == q.k = "array" /\ AnyNan(q.c)

normalize_quaternion(q) ==
    IF q.k = "array"
    THEN [q_norm \in Floats |->
             IF FLess(q_norm, F(1, -10)) THEN IdentityQuaternion
             ELSE Array(Over4(q.c, q_norm))][Norm(q.c)]
    ELSE [q EXCEPT !.k = "unit"]

\* np.cos and np.sin give NaN for NaN and for an infinity
TrigIsNan(x) == IsNan(x) \/ IsInf(x)

NanQuaternion == Array(<< FloatNan, FloatNan, FloatNan, FloatNan >>)

\* quaternion_multiply(dq, q) for dq = [cos_half, sin_half * w_axis]:
\* every component of the product sums a term of every component of both
\* factors, so one NaN makes all four NaN, and an infinity in dq meets
\* the zeros or the opposite signs of q
ApplyRotation(half_theta, w_axis, q) ==
    IF TrigIsNan(half_theta) \/ AnyNan(w_axis) \/ AnyInf(w_axis) \/ AnyNan(q.c)
    THEN NanQuaternion
    ELSE IF \A i \in DOMAIN q.c : IsZero(q.c[i]) THEN q
    ELSE [k |-> "rotated", c |-> q.c]

calculate_gravity_gradient_torque(sat_position, quaternion) ==
    [r_mag \in Floats |->
        LET r_unit == Over(sat_position, r_mag)
            I == moment_of_inertia
            mu == EARTH_MU
            coeff == FDiv(FMul(F(3, 0), mu), FMul(FMul(r_mag, r_mag), r_mag))
            torque_magnitude == FMul(FMul(coeff, I[3]), F(1, -12))
        IN  IF FLess(r_mag, F(1, -10)) THEN Zeros3
            ELSE Scale(Cross(r_unit, << F(0, 0), F(0, 0), F(1, 0) >>), torque_magnitude)]
        [Norm(sat_position)]

\* lines 153-161 of propagate_attitude: the desaturation of the wheels
DesaturationTorque(h_rw) ==
    [desat_ratio \in Floats |->
        LET desat_strength == FDiv(FSub(desat_ratio, F(7, -1)), F(3, -1))
        IN  IF FGreater(desat_ratio, F(7, -1))
            THEN Scale(h_rw, FMul(FNeg(F(2, -2)), desat_strength))
            ELSE Zeros3]
        [FDiv(Norm(h_rw), reaction_wheel_max_momentum)]

\* lines 164-168: Euler's rotational equation
AngularAcceleration(w, h_rw, control_torque, external_torque, desat_torque) ==
    LET I == moment_of_inertia
        total_external == VSub(VAdd(external_torque, desat_torque), Cross(w, h_rw))
        total_torque == VAdd(control_torque, total_external)
    IN  VDiv(VSub(total_torque, Cross(w, VMul(I, w))), I)

\* lines 179-204: the orientation turned by new_w * dt
Integrated(q, new_w, dt) ==
    [w_mag \in Floats |->
        LET theta == FMul(w_mag, dt)
            w_axis == Over(new_w, w_mag)
            half_theta == FMul(F(5, -1), theta)
        IN  IF FLess(w_mag, F(1, -12)) THEN q
            ELSE ApplyRotation(half_theta, w_axis, q)]
        [Norm(new_w)]

\* sat_position is the position argument, << >> for None; an inner
\* bracket takes the values of the outer one: first q, external_torque
\* and desat_torque, then new_w and new_h_rw, then new_q
propagate_attitude(state, dt, control_torque, external_torque_in, sat_position) ==
    IF AnyNan(state.quaternion.c) \/ AnyNan(state.angular_velocity)
    THEN ResetState
    ELSE
    LET w == state.angular_velocity
        h_rw == state.reaction_wheel_momentum
    IN  [q \in Quaternions, external_torque \in Arrays, desat_torque \in Arrays |->
            [new_w \in Arrays, new_h_rw \in Arrays |->
                [new_q \in Quaternions |->
                    IF QuaternionHasNan(new_q) \/ AnyNan(new_w) \/ AnyNan(new_h_rw)
                    THEN ResetState
                    ELSE AttitudeState(new_q, new_w, new_h_rw)]
                    [normalize_quaternion(Integrated(q, new_w, dt))]]
                [VAdd(w, Scale(AngularAcceleration(w, h_rw, control_torque,
                                                   external_torque, desat_torque), dt)),
                 VAdd(h_rw, Scale(VSub(control_torque, desat_torque), dt))]]
            [normalize_quaternion(state.quaternion),
             IF sat_position # << >>
             THEN VAdd(external_torque_in,
                       calculate_gravity_gradient_torque(sat_position, state.quaternion))
             ELSE external_torque_in,
             DesaturationTorque(h_rw)]

\* ------------------------------------------------------------------------
\* Controller: the orbit and the attitude control law
\*
\* np.random.normal is an argument: the three samples the call draws.
\* ------------------------------------------------------------------------
\* ControlConfig
orbit_gain == F(1, -5)

attitude_gain_p == F(2, -2)

attitude_gain_d == F(5, -2)

orbit_dead_band_narrow == F(1, 0)

\* the width of the dead band of compute_orbit_control, km
orbit_dead_band == F(5, 0)

pi == Round(FALSE, 314159265, -8)

\* np.arccos on [-1, 1], by the polynomial of Abramowitz and Stegun
\* 4.4.45: exactly 0 at 1, NaN for NaN
RECURSIVE Arccos(_)
Arccos(a) ==
    [x \in Floats |->
        IF IsNan(x) THEN FloatNan
        ELSE IF x.neg /\ ~ IsZero(x) THEN FSub(pi, Arccos(FNeg(x)))
        ELSE LET p3 == FNeg(F(1873, -5))
                 p2 == FAdd(F(7426, -5), FMul(p3, x))
                 p1 == FAdd(FNeg(F(2121, -4)), FMul(p2, x))
                 p0 == FAdd(FDiv(pi, F(2, 0)), FMul(p1, x))
             IN  FMul(FSqrt(FSub(F(1, 0), x)), p0)][a]

\* np.sin on [0, pi], by its series around 0
Sin(a) ==
    [x \in Floats |->
        IF TrigIsNan(x) THEN FloatNan
        ELSE [y \in Floats |->
                 [y2 \in Floats |->
                     LET s3 == FSub(F(1, 0), FDiv(y2, F(42, 0)))
                         s2 == FSub(F(1, 0), FMul(FDiv(y2, F(20, 0)), s3))
                         s1 == FSub(F(1, 0), FMul(FDiv(y2, F(6, 0)), s2))
                     IN  FMul(y, s1)][FMul(y, y)]]
                 [IF FGreater(x, FDiv(pi, F(2, 0))) THEN FSub(pi, x) ELSE x]][a]

\* Controller.quaternion_multiply on two arrays
quaternion_multiply(a, b) ==
    [q1 \in Arrays, q2 \in Arrays |->
        LET w1 == q1[1]  x1 == q1[2]  y1 == q1[3]  z1 == q1[4]
            w2 == q2[1]  x2 == q2[2]  y2 == q2[3]  z2 == q2[4]
        IN  << FSub(FSub(FSub(FMul(w1, w2), FMul(x1, x2)), FMul(y1, y2)), FMul(z1, z2)),
               FSub(FAdd(FAdd(FMul(w1, x2), FMul(x1, w2)), FMul(y1, z2)), FMul(z1, y2)),
               FAdd(FAdd(FSub(FMul(w1, y2), FMul(x1, z2)), FMul(y1, w2)), FMul(z1, x2)),
               FAdd(FSub(FAdd(FMul(w1, z2), FMul(x1, y2)), FMul(y1, x2)), FMul(z1, w2)) >>]
        [a, b]

\* target_altitude - (|position| - earth_radius)
AltitudeError(orbit_position, target_altitude, earth_radius) ==
    FSub(target_altitude, FSub(Norm(orbit_position), earth_radius))

compute_orbit_control(orbit_position, target_altitude, earth_radius, thrust_noise) ==
    [r_mag \in Floats |->
        [altitude_error \in Floats |->
            LET radial_direction == Over(orbit_position, r_mag)
                desired_thrust == Scale(Scale(radial_direction, altitude_error),
                                        orbit_gain)
            IN  IF FLess(FAbs(altitude_error), orbit_dead_band) THEN Zeros3
                ELSE VAdd(desired_thrust, thrust_noise)]
            [FSub(target_altitude, FSub(r_mag, earth_radius))]]
        [Norm(orbit_position)]

\* lines 70-84 of compute_attitude_control: the error quaternion and its
\* clamped scalar part; degenerate when the renormalisation finds no norm
ErrorQuaternion(a) ==
    [q_error \in Arrays |->
        [w_error_clamped \in Floats, q_error_norm \in Floats |->
            IF FGreater(FAbs(FSub(q_error[1], w_error_clamped)), F(1, -6))
            THEN IF FGreater(q_error_norm, F(1, -10))
                 THEN [renormalized \in Arrays |->
                          [degenerate |-> FALSE, q_error |-> renormalized,
                           w_error_clamped |-> Clip(renormalized[1])]]
                          [Over4(q_error, q_error_norm)]
                 ELSE [degenerate |-> TRUE, q_error |-> q_error,
                       w_error_clamped |-> w_error_clamped]
            ELSE [degenerate |-> FALSE, q_error |-> q_error,
                  w_error_clamped |-> w_error_clamped]]
            [Clip(q_error[1]), Norm(q_error)]][a]

\* lines 89-111
ErrorVector(q_error, error_angle) ==
    [vec_error \in Arrays |->
        [vec_error_mag \in Floats |->
            LET sin_half_angle == Sin(FDiv(error_angle, F(2, 0)))
                error_axis == Over(vec_error, vec_error_mag)
            IN  IF FLess(vec_error_mag, F(1, -10)) THEN Zeros3
                ELSE IF FLess(error_angle, F(1, -1)) THEN Scale(vec_error, F(2, 0))
                ELSE IF FLess(FAbs(sin_half_angle), F(1, -10)) THEN Zeros3
                ELSE Scale(error_axis, error_angle)]
            [Norm(vec_error)]]
        [SubSeq(q_error, 2, 4)]

\* lines 114-120
GainScale(error_angle) ==
    [ratio \in Floats |->
        FAdd(F(2, -1), FDiv(F(8, -1), FAdd(F(1, 0), FMul(ratio, ratio))))]
        [FDiv(FDiv(FMul(error_angle, F(180, 0)), pi), F(30, 0))]

\* lines 122-128: the torque of the PD law before the noise is added
DesiredTorque(error_vector, error_angle, angular_velocity) ==
    [gain_scale \in Floats |->
        LET p_gain == FMul(attitude_gain_p, gain_scale)
            d_gain == FMul(attitude_gain_d, gain_scale)
            torque_proportional == Scale(error_vector, p_gain)
            torque_derivative == Scale(angular_velocity, FNeg(d_gain))
        IN  VAdd(torque_proportional, torque_derivative)]
        [GainScale(error_angle)]

TorqueIsValid_nan_only(final_torque) == ~ AnyNan(final_torque)

\* the final safety check on final_torque
TorqueIsValid(final_torque) == ~ (AnyNan(final_torque) \/ AnyInf(final_torque))

\* lines 61-66: the shortest path, and q_target * conjugate of q_current
ErrorOf(a) ==
    [q_unit \in Arrays |->
        [q_current \in Arrays |->
            quaternion_multiply(IdentityQuaternion.c,
                                << q_current[1], FNeg(q_current[2]), FNeg(q_current[3]),
                                   FNeg(q_current[4]) >>)]
            [IF FLess(q_unit[1], F(0, 0)) THEN Negated(q_unit) ELSE q_unit]][a]

\* lines 86-144: from the error quaternion to the return
TorqueFor(err, angular_velocity, torque_noise) ==
    [error_angle \in Floats |->
        [desired_torque \in Arrays |->
            [final_torque \in Arrays |->
                IF ~ TorqueIsValid(final_torque)
                THEN [gate |-> "final", desired_torque |-> desired_torque,
                      final_torque |-> final_torque, ret |-> Zeros3]
                ELSE [gate |-> "none", desired_torque |-> desired_torque,
                      final_torque |-> final_torque, ret |-> final_torque]]
                [VAdd(desired_torque, torque_noise)]]
            [DesiredTorque(ErrorVector(err.q_error, error_angle), error_angle,
                           angular_velocity)]]
        [FMul(F(2, 0), Arccos(err.w_error_clamped))]

\* what compute_attitude_control computes: the gate that ended it, the
\* torque before and after the noise, and what it returns
AttitudeControl(attitude_state, torque_noise) ==
    [q_norm \in Floats |->
        IF FLess(q_norm, F(1, -10))
        THEN [gate |-> "norm", desired_torque |-> Zeros3, final_torque |-> Zeros3,
              ret |-> Zeros3]
        ELSE [err \in [degenerate : BOOLEAN, q_error : Arrays, w_error_clamped : Floats] |->
                 IF err.degenerate
                 THEN [gate |-> "error_norm", desired_torque |-> Zeros3,
                       final_torque |-> Zeros3, ret |-> Zeros3]
                 ELSE TorqueFor(err, attitude_state.angular_velocity, torque_noise)]
                 [ErrorQuaternion(ErrorOf(Over4(attitude_state.quaternion.c, q_norm)))]]
        [Norm(attitude_state.quaternion.c)]

compute_attitude_control(attitude_state, torque_noise) ==
    AttitudeControl(attitude_state, torque_noise).ret

\* ------------------------------------------------------------------------
\* The physics engine and the controller called on their own: one call
\* at a time, on arguments of every kind a float array can hold
\* ------------------------------------------------------------------------
\* PhysicalConstants.EARTH_RADIUS
EARTH_RADIUS == F(6371, 0)

Vec3(x, y, z) == << x, y, z >>

\* a very large finite number: ten times it is beyond the largest double
Huge == F(1, 308)

QuaternionInputs ==
    { IdentityQuaternion,
      Array(<< F(1, 0), F(1, 0), F(0, 0), F(0, 0) >>),
      Array(<< F(0, 0), F(0, 0), FNeg(F(2, 0)), F(0, 0) >>),
      Array(<< F(0, 0), F(0, 0), F(0, 0), F(0, 0) >>),
      Array(<< F(1, -11), F(0, 0), F(0, 0), F(0, 0) >>),
      Array(<< F(1, 200), F(0, 0), F(0, 0), F(0, 0) >>),
      Array(<< FloatNan, F(0, 0), F(0, 0), F(0, 0) >>),
      Array(<< F(1, 0), FloatInf(FALSE), F(0, 0), F(0, 0) >>) }

RateInputs ==
    { Zeros3, Vec3(F(1, -2), F(0, 0), F(0, 0)), Vec3(F(0, 0), F(1, 200), F(0, 0)),
      Vec3(FloatNan, F(0, 0), F(0, 0)), Vec3(F(0, 0), FloatInf(TRUE), F(0, 0)) }

MomentumInputs ==
    { Zeros3, Vec3(F(9, 0), F(0, 0), F(0, 0)), Vec3(F(0, 0), F(0, 0), FloatInf(FALSE)),
      Vec3(F(0, 0), FloatNan, F(0, 0)) }

TorqueInputs ==
    { Zeros3, Vec3(F(1, -1), F(0, 0), F(0, 0)), Vec3(Huge, F(0, 0), F(0, 0)),
      Vec3(FNeg(Huge), F(0, 0), F(0, 0)), Vec3(FloatInf(FALSE), F(0, 0), F(0, 0)),
      Vec3(F(0, 0), FloatNan, F(0, 0)) }

\* external_torque of propagate_attitude
ExternalTorqueInputs ==
    { Zeros3, Vec3(FNeg(Huge), F(0, 0), F(0, 0)), Vec3(F(0, 0), F(0, 0), FloatNan),
      Vec3(FloatInf(TRUE), F(0, 0), F(0, 0)) }

\* the position argument of propagate_attitude; << >> is None
PositionInputs ==
    { << >>, Vec3(F(7000, 0), F(0, 0), F(0, 0)), Vec3(F(0, 0), FloatInf(FALSE), F(0, 0)) }

\* OrbitalState.position of compute_orbit_control
OrbitInputs ==
    { Vec3(F(6870, 0), F(0, 0), F(0, 0)), Vec3(F(0, 0), FNeg(F(6870, 0)), F(0, 0)),
      Zeros3, Vec3(FloatNan, F(0, 0), F(0, 0)), Vec3(F(0, 0), F(0, 0), FloatInf(FALSE)) }

TargetAltitudes ==
    { F(499, 0), F(502, 0), F(496, 0), F(504, 0), F(494, 0), F(510, 0), F(400, 0),
      FloatNan, FloatInf(FALSE) }

\* samples of np.random.normal(0, std, 3), in units of std
NoiseSamples(std) ==
    { Zeros3, Vec3(std, F(0, 0), FNeg(std)),
      Vec3(FNeg(FMul(F(2, 0), std)), std, FMul(F(3, 0), std)) }

thrust_noise_std == F(1, -4)

torque_noise_std == F(1, -3)

GncInit == AttackInit

GncPropagateAttitude ==
    /\ call = NoCall
    /\ \E q \in QuaternionInputs, w \in RateInputs, h \in MomentumInputs,
          c \in TorqueInputs, x \in ExternalTorqueInputs, p \in PositionInputs :
        call' = [op |-> "propagate_attitude", state |-> AttitudeState(q, w, h),
                 control_torque |-> c, external_torque |-> x, position |-> p,
                 ret_state |-> propagate_attitude(AttitudeState(q, w, h), F(Dt, 0),
                                                  c, x, p)] @@ NoCall
    /\ UNCHANGED << mgr_vars, sim_vars >>

GncOrbitControl ==
    /\ call = NoCall
    /\ \E p \in OrbitInputs, a \in TargetAltitudes, n \in NoiseSamples(thrust_noise_std) :
        call' = [op |-> "compute_orbit_control", position |-> p, target_altitude |-> a,
                 thrust_noise |-> n,
                 ret_thrust |-> compute_orbit_control(p, a, EARTH_RADIUS, n)] @@ NoCall
    /\ UNCHANGED << mgr_vars, sim_vars >>

GncAttitudeControl ==
    /\ call = NoCall
    /\ \E q \in QuaternionInputs, w \in RateInputs, n \in NoiseSamples(torque_noise_std) :
        \E o \in { AttitudeControl(AttitudeState(q, w, Zeros3), n) } :
            call' = [op |-> "compute_attitude_control",
                     state |-> AttitudeState(q, w, Zeros3), torque_noise |-> n,
                     gate |-> o.gate, desired_torque |-> o.desired_torque,
                     final_torque |-> o.final_torque,
                     ret_torque |-> o.ret] @@ NoCall
    /\ UNCHANGED << mgr_vars, sim_vars >>

GncNext == GncPropagateAttitude \/ GncOrbitControl \/ GncAttitudeControl \/ ApiReturn

SpecGnc == GncInit /\ [][GncNext]_vars


\* ------------------------------------------------------------------------
\* Properties of the attitude dynamics and the control laws
\* ------------------------------------------------------------------------
NanOrInf(v) == AnyNan(v) \/ AnyInf(v)

StateHasNanOrInf(s) ==
    \/ (s.quaternion.k = "array" /\ NanOrInf(s.quaternion.c))
    \/ NanOrInf(s.angular_velocity)
    \/ NanOrInf(s.reaction_wheel_momentum)

\* |q| = 1 within the last digit a float keeps
UnitNorm(q) ==
    \/ q.k = "unit"
    \/ /\ q.k = "array"
       /\ FLess(FAbs(FSub(Norm(q.c), F(1, 0))), F(1, 1 - FloatDigits))

PropagateInputHasNanOrInf ==
    \/ StateHasNanOrInf(call.state)
    \/ NanOrInf(call.control_torque)
    \/ NanOrInf(call.external_torque)

\* C22: after every propagate_attitude call the returned quaternion has
\* unit norm, and whenever a NaN or an Inf appears in the input state, in
\* the torques or in a computed output, the call returns exactly the
\* reset state: no state with a NaN or an Inf is ever returned.
C22_ResetOnNanOrInf ==
    call.op = "propagate_attitude" =>
        /\ UnitNorm(call.ret_state.quaternion)
        /\ (PropagateInputHasNanOrInf => call.ret_state = ResetState)
        /\ ~ StateHasNanOrInf(call.ret_state)

\* What the code keeps: the returned quaternion has unit norm, a NaN or
\* an Inf in the input state or the torques gives the reset state, and no
\* NaN is ever returned.
C22_ResetOnNan ==
    call.op = "propagate_attitude" =>
        /\ UnitNorm(call.ret_state.quaternion)
        /\ (PropagateInputHasNanOrInf => call.ret_state = ResetState)
        /\ ~ QuaternionHasNan(call.ret_state.quaternion)
        /\ ~ AnyNan(call.ret_state.angular_velocity)
        /\ ~ AnyNan(call.ret_state.reaction_wheel_momentum)

\* finite arguments, and a wheel momentum of +Inf comes back
C22_InfiniteMomentumReturned ==
    /\ call.op = "propagate_attitude"
    /\ ~ PropagateInputHasNanOrInf
    /\ AnyInf(call.ret_state.reaction_wheel_momentum)
    /\ call.ret_state # ResetState


\* a >= b; every comparison with NaN is false
FGreaterEq(a, b) == ~ IsNan(a) /\ ~ IsNan(b) /\ ~ FLess(a, b)

\* the altitude error of the call made
OrbitCallError == AltitudeError(call.position, call.target_altitude, EARTH_RADIUS)

C23_NanErrorLeavesDeadBand ==
    /\ call.op = "compute_orbit_control"
    /\ AnyNan(call.position)
    /\ IsNan(OrbitCallError)
    /\ AnyNan(call.ret_thrust)


\* C24: compute_attitude_control returns a torque whose part without the
\* noise is exactly zero for the identity quaternion at rest, so that the
\* noise drawn is all that comes back, and returns exactly zero torque,
\* without noise, when the norm of the input quaternion is below 1e-10 or
\* when a component of the computed torque is NaN or Inf.
C24_AttitudeControlGates ==
    call.op = "compute_attitude_control" =>
        /\ (/\ call.state.quaternion = IdentityQuaternion
            /\ call.state.angular_velocity = Zeros3)
           => call.desired_torque = Zeros3 /\ call.ret_torque = call.torque_noise
        /\ FLess(Norm(call.state.quaternion.c), F(1, -10)) => call.ret_torque = Zeros3
        /\ NanOrInf(call.final_torque) => call.ret_torque = Zeros3
        /\ ~ NanOrInf(call.ret_torque)

\* an infinite rate made the torque infinite, noise was drawn, and the
\* zero torque came back
C24_Witness ==
    /\ call.op = "compute_attitude_control"
    /\ AnyInf(call.final_torque)
    /\ ~ AnyNan(call.final_torque)
    /\ call.torque_noise # Zeros3
    /\ call.ret_torque = Zeros3

\* the identity at rest: the noise drawn came back and nothing else
C24_IdentityAtRest ==
    /\ call.op = "compute_attitude_control"
    /\ call.state.quaternion = IdentityQuaternion
    /\ call.state.angular_velocity = Zeros3
    /\ call.torque_noise # Zeros3
    /\ call.ret_torque = call.torque_noise

\* a quaternion of norm 1e-11 on a turning satellite: zero torque
C24_DegenerateQuaternion ==
    /\ call.op = "compute_attitude_control"
    /\ call.gate = "norm"
    /\ ~ IsZero(Norm(call.state.quaternion.c))
    /\ call.state.angular_velocity # Zeros3
    /\ call.torque_noise # Zeros3
    /\ call.ret_torque = Zeros3

\* a NaN in the quaternion passes every comparison and is stopped at the
\* final check
C24_NanStoppedAtTheEnd ==
    /\ call.op = "compute_attitude_control"
    /\ AnyNan(call.state.quaternion.c)
    /\ call.gate = "final"
    /\ call.ret_torque = Zeros3

====
